---------------------------- MODULE Spec2Model ----------------------------
(***************************************************************************)
(* A model of the arx archive engine (arx-core): the container writer      *)
(* (pack), the readers (extract, verify), the journal / delta sidecars and *)
(* the CRUD overlay with compaction.                                       *)
(*                                                                         *)
(* Files are modelled byte by byte.  A file is a sequence of CELLS, one    *)
(* cell per byte.  A cell is a tuple of integers:                          *)
(*   <<b>>                a plain byte b (0..255)                          *)
(*   <<DigestMark, ...>>  one byte of a BLAKE3 digest                      *)
(*   <<CipherMark, ...>>  one byte of an XChaCha20 ciphertext body         *)
(*   <<TagMark, ...>>     one byte of a Poly1305 tag                       *)
(* The three symbolic kinds idealise the cryptography: a digest byte       *)
(* determines the hashed input, a ciphertext byte determines key, nonce,   *)
(* position and plaintext byte, a tag determines everything that was       *)
(* sealed.  Strings are sequences of character codes.                      *)
(***************************************************************************)
EXTENDS Integers, Sequences, FiniteSets, TLC

\* ------------------------------------------------------------------------
\* Bounds of the model
\* ------------------------------------------------------------------------
MaxFileLen == 3
MinChunk == 1
MaxChunk == 3

\* ------------------------------------------------------------------------
\* Program constants
\* ------------------------------------------------------------------------
HEADER_LEN == 48
ENTRY_SIZE == 32
TAIL_LEN == 120
TAG_LEN == 16
VERSION == 3
FLAG_ENCRYPTED == 1
CodecStore == 0
CodecZstd == 1
RegionManifest == 1
RegionChunkTable == 2
RegionChunkData == 3
SB_MAGIC == <<65, 82, 88, 65, 76, 80>>                 \* "ARXALP"
TAIL_MAGIC == <<65, 82, 88, 84, 65, 73, 76, 0>>        \* "ARXTAIL\0"
ToolName == <<97, 114, 120, 45, 99, 111, 114, 101, 47, 99, 104, 117, 110,
              107, 101, 100, 45, 97, 108, 112, 104, 97>> \* "arx-core/chunked-alpha"
\* associated-data labels b"manifest", b"chunktab", b"chunk"
AdLabel ==
    [manifest |-> <<109, 97, 110, 105, 102, 101, 115, 116>>,
     chunktab |-> <<99, 104, 117, 110, 107, 116, 97, 98>>,
     chunk |-> <<99, 104, 117, 110, 107>>]
\* serde field names of Manifest / FileEntry / DirEntry / Meta / ChunkRef
MKey ==
    [files |-> <<102, 105, 108, 101, 115>>, dirs |-> <<100, 105, 114, 115>>,
     meta |-> <<109, 101, 116, 97>>, created |-> <<99, 114, 101, 97, 116, 101, 100>>,
     tool |-> <<116, 111, 111, 108>>, path |-> <<112, 97, 116, 104>>,
     mode |-> <<109, 111, 100, 101>>, mtime |-> <<109, 116, 105, 109, 101>>,
     u_size |-> <<117, 95, 115, 105, 122, 101>>,
     chunk_refs |-> <<99, 104, 117, 110, 107, 95, 114, 101, 102, 115>>,
     id |-> <<105, 100>>]
\* character codes used in paths
ChDot == 46
ChSlash == 47
ChBackslash == 92
\* the largest integer of the model; a decoded u64 beyond it saturates here
Huge == 2147483647

\* ------------------------------------------------------------------------
\* Cells
\* ------------------------------------------------------------------------
DigestMark == 300
CipherMark == 301
TagMark == 302

Bytes(s) == [i \in 1..Len(s) |-> <<s[i]>>]
AllPlain(cs) == \A i \in 1..Len(cs) : Len(cs[i]) = 1
Vals(cs) == [i \in 1..Len(cs) |-> cs[i][1]]
Min2(a, b) == IF a < b THEN a ELSE b
Max2(a, b) == IF a > b THEN a ELSE b

\* cells lo..hi of cs, each preceded by its length
RECURSIVE FlatCells(_, _, _)
FlatCells(cs, lo, hi) ==
    IF lo > hi THEN <<>>
    ELSE IF lo = hi THEN <<Len(cs[lo])>> \o cs[lo]
    ELSE LET mid == (lo + hi) \div 2
         IN  FlatCells(cs, lo, mid) \o FlatCells(cs, mid + 1, hi)

\* The integers a cell sequence stands for, injectively.
Flat(cs) == IF AllPlain(cs) THEN Vals(cs) ELSE <<-1>> \o FlatCells(cs, 1, Len(cs))

RECURSIVE Concat(_)
Concat(ss) == IF ss = <<>> THEN <<>> ELSE Head(ss) \o Concat(Tail(ss))

\* blake3::hash / Hasher::update..finalize: a 32-byte digest.  Ideal hash:
\* the digest determines its input.
Blake3(cs) ==
    [j \in 1..32 |-> IF j = 1 THEN <<DigestMark, 0>> \o Flat(cs)
                     ELSE <<DigestMark, j - 1>>]

\* u64::to_le_bytes
LEByte(n, i) ==
    IF i = 1 THEN n % 256
    ELSE IF i = 2 THEN (n \div 256) % 256
    ELSE IF i = 3 THEN (n \div 65536) % 256
    ELSE IF i = 4 THEN (n \div 16777216) % 256
    ELSE 0
LE64(n) == [i \in 1..8 |-> <<LEByte(n, i)>>]
LE16(n) == [i \in 1..2 |-> <<LEByte(n, i)>>]

\* The value of one byte read from a file; a symbolic byte reads as some
\* byte value, fixed by the byte.
CellVal(c) == IF Len(c) = 1 THEN c[1] ELSE (c[1] + c[Len(c)]) % 256

\* u64::from_le_bytes on 8 cells (saturating at Huge)
FromLE64(cs) ==
    LET v(i) == CellVal(cs[i]) IN
    IF v(5) # 0 \/ v(6) # 0 \/ v(7) # 0 \/ v(8) # 0 \/ v(4) >= 128 THEN Huge
    ELSE v(1) + 256 * v(2) + 65536 * v(3) + 16777216 * v(4)
FromLE16(cs) == CellVal(cs[1]) + 256 * CellVal(cs[2])

\* A read of len bytes at offset off (0-based) of file f; read_exact fails
\* on a short file.
CanRead(f, off, len) == off >= 0 /\ len >= 0 /\ off <= Len(f) /\ len <= Len(f) - off
ReadAt(f, off, len) == SubSeq(f, off + 1, off + len)

\* ------------------------------------------------------------------------
\* AEAD (XChaCha20-Poly1305), idealised
\* ------------------------------------------------------------------------
\* derive_nonce without the chunk id
derive_nonce_no_counter(key_salt, region, chunk_id) == <<key_salt, region, 0>>

\* derive_nonce: blake3(key_salt || region || chunk_id_le)[..24]
derive_nonce(key_salt, region, chunk_id) == <<key_salt, region, chunk_id>>

\* seal_whole: ciphertext body, one cell per plaintext byte, then the tag.
seal_whole(key, nonce, ad, plaintext) ==
    LET n == Len(plaintext) IN
    [i \in 1..(n + TAG_LEN) |->
        IF i <= n
        THEN <<CipherMark, key, Len(nonce)>> \o nonce \o <<i>> \o plaintext[i]
        ELSE IF i = n + 1
             THEN <<TagMark, 0, key, Len(nonce)>> \o nonce \o <<Len(ad)>> \o ad
                    \o Flat(plaintext)
             ELSE <<TagMark, i - n - 1>>]

\* The plaintext a ciphertext body cell carries (what follows the index).
BodyPlain(ct) ==
    [i \in 1..(Len(ct) - TAG_LEN) |->
        IF Len(ct[i]) >= 3 /\ ct[i][1] = CipherMark /\ Len(ct[i]) >= ct[i][3] + 5
        THEN SubSeq(ct[i], ct[i][3] + 5, Len(ct[i]))
        ELSE <<0>>]

\* Whether the ciphertext authenticates under key, nonce and ad.
aead_ok(key, nonce, ad, ct) ==
    /\ Len(ct) >= TAG_LEN
    /\ ct = seal_whole(key, nonce, ad, BodyPlain(ct))

\* open_whole's result when authentication succeeds.
aead_plain(ct) == BodyPlain(ct)


\* ------------------------------------------------------------------------
\* CBOR (ciborium / serde_cbor), the subset the program's types use:
\* unsigned integers, text strings, arrays and maps with definite lengths.
\* ------------------------------------------------------------------------
CborHead(major, n) ==
    IF n < 24 THEN <<major * 32 + n>>
    ELSE IF n < 256 THEN <<major * 32 + 24, n>>
    ELSE IF n < 65536 THEN <<major * 32 + 25, n \div 256, n % 256>>
    ELSE <<major * 32 + 26, (n \div 16777216) % 256, (n \div 65536) % 256,
           (n \div 256) % 256, n % 256>>
CborUint(n) == CborHead(0, n)
CborText(s) == CborHead(3, Len(s)) \o s
CborArr(n) == CborHead(4, n)
CborMap(n) == CborHead(5, n)

\* Parsers read cells of s from position p (1-based) and return the value
\* and the next position; p = 0 stands for a failed parse and is passed on.
NoParse == [ok |-> FALSE, major |-> 0, v |-> 0, p |-> 0]

PHead(s, p) ==
    IF p = 0 \/ p > Len(s) THEN NoParse
    ELSE LET b == CellVal(s[p])
             major == b \div 32
             ai == b % 32
             at(k) == CellVal(s[p + k])
         IN  IF ai < 24 THEN [ok |-> TRUE, major |-> major, v |-> ai, p |-> p + 1]
             ELSE IF ai = 24 /\ p + 1 <= Len(s)
                  THEN [ok |-> TRUE, major |-> major, v |-> at(1), p |-> p + 2]
             ELSE IF ai = 25 /\ p + 2 <= Len(s)
                  THEN [ok |-> TRUE, major |-> major, v |-> at(1) * 256 + at(2),
                        p |-> p + 3]
             ELSE IF ai = 26 /\ p + 4 <= Len(s)
                  THEN [ok |-> TRUE, major |-> major,
                        v |-> IF at(1) >= 128 THEN Huge
                              ELSE at(1) * 16777216 + at(2) * 65536 + at(3) * 256 + at(4),
                        p |-> p + 5]
             ELSE NoParse

PMajor(s, p, major) ==
    LET Of(h) == IF h.ok /\ h.major = major THEN h ELSE NoParse
    IN  Of(PHead(s, p))
PUint(s, p) == PMajor(s, p, 0)
PArr(s, p) == PMajor(s, p, 4)
PMapN(s, p, n) ==
    LET Of(h) == IF h.ok /\ h.v = n THEN h ELSE NoParse
    IN  Of(PMajor(s, p, 5))
PText(s, p) ==
    LET Of(h) ==
            IF h.ok /\ h.v <= Len(s) - h.p + 1
            THEN [ok |-> TRUE, major |-> 3,
                  v |-> [i \in 1..h.v |-> CellVal(s[h.p + i - 1])], p |-> h.p + h.v]
            ELSE NoParse
    IN  Of(PMajor(s, p, 3))
PKey(s, p, key) ==
    LET Of(x) == IF x.ok /\ x.v = key THEN x ELSE NoParse
    IN  Of(PText(s, p))
\* a unit variant of an enum: its name, one of names
PEnum(s, p, names) ==
    LET Of(x) == IF x.ok /\ x.v \in names THEN x ELSE NoParse
    IN  Of(PText(s, p))
\* [u8; 32]: an array of 32 integers, here each in its two-byte form
PDigest(s, p) ==
    LET Of(n) ==
            IF n.ok /\ n.v = 32 /\ n.p + 64 <= Len(s) + 1
               /\ \A i \in 1..32 : s[n.p + 2 * i - 2] = <<24>>
            THEN [ok |-> TRUE, major |-> 4,
                  v |-> [i \in 1..32 |-> s[n.p + 2 * i - 1]], p |-> n.p + 64]
            ELSE NoParse
    IN  Of(PArr(s, p))

\* What a derived Deserialize expects, item by item: a map of n entries, a
\* field name, an integer, a text, a unit variant, a digest, or a list
\* whose elements follow the schema elem.
It(k) == [k |-> k]
ItMap(n) == [k |-> "map", n |-> n]
ItKey(name) == [k |-> "key", name |-> name]
ItEnum(names) == [k |-> "enum", names |-> names]
ItList(elem) == [k |-> "list", elem |-> elem]

RECURSIVE PItems(_, _, _, _)
RECURSIVE PRepeat(_, _, _, _)
PItem(s, p, item) ==
    IF item.k = "uint" THEN PUint(s, p)
    ELSE IF item.k = "text" THEN PText(s, p)
    ELSE IF item.k = "key" THEN PKey(s, p, item.name)
    ELSE IF item.k = "map" THEN PMapN(s, p, item.n)
    ELSE IF item.k = "enum" THEN PEnum(s, p, item.names)
    ELSE IF item.k = "digest" THEN PDigest(s, p)
    ELSE LET Of(n) == IF n.ok THEN PRepeat(s, n.p, n.v, item.elem) ELSE NoParse
         IN  Of(PArr(s, p))

\* the value x.v put before the values of the parse r
PCons(v, r) == IF r.ok THEN [r EXCEPT !.v = <<v>> \o @] ELSE NoParse

\* n elements of schema elem from position p: the sequence of their values
PRepeat(s, p, n, elem) ==
    IF n = 0 THEN [ok |-> TRUE, major |-> 4, v |-> <<>>, p |-> p]
    ELSE LET Of(x) == IF x.ok THEN PCons(x.v, PRepeat(s, x.p, n - 1, elem))
                      ELSE NoParse
         IN  Of(PItems(s, p, elem, 1))

\* the items schema[i..] from position p: the values of the items that
\* carry one, in order
PItems(s, p, schema, i) ==
    IF i > Len(schema) THEN [ok |-> TRUE, major |-> 0, v |-> <<>>, p |-> p]
    ELSE LET Of(x) ==
                 IF ~x.ok THEN NoParse
                 ELSE IF schema[i].k \in {"key", "map"}
                      THEN PItems(s, x.p, schema, i + 1)
                 ELSE PCons(x.v, PItems(s, x.p, schema, i + 1))
         IN  Of(PItem(s, p, schema[i]))

\* ------------------------------------------------------------------------
\* Codecs.  ZSTD is an external library; it is modelled by a lossless
\* run-length code, (count, byte) pairs: its output is shorter than, as
\* long as, or longer than its input depending on the content.
\* ------------------------------------------------------------------------
RECURSIVE RunLen(_, _)
RunLen(v, i) ==
    IF i < Len(v) /\ v[i + 1] = v[i] THEN 1 + RunLen(v, i + 1) ELSE 1

RECURSIVE RleEnc(_, _)
RleEnc(v, i) ==
    IF i > Len(v) THEN <<>>
    ELSE LET r == Min2(RunLen(v, i), 255) IN <<r, v[i]>> \o RleEnc(v, i + r)

RECURSIVE RleDec(_, _)
RleDec(v, i) ==
    IF i > Len(v) THEN <<>>
    ELSE [k \in 1..v[i] |-> v[i + 1]] \o RleDec(v, i + 2)

\* ZstdCompressor::compress(level 3) on a whole chunk
ZstdCompress(plain) == Bytes(RleEnc(Vals(plain), 1))

\* zstd Decoder: fails on a malformed stream
ZstdValid(comp) ==
    /\ Len(comp) % 2 = 0
    /\ \A i \in 1..Len(comp) : (i % 2 = 1) => CellVal(comp[i]) > 0
ZstdDecompress(comp) == Bytes(RleDec([i \in 1..Len(comp) |-> CellVal(comp[i])], 1))

\* ------------------------------------------------------------------------
\* Chunker (StreamingChunker::next_chunk): content-defined boundaries.  A
\* chunk ends after the first byte, at or past MinChunk bytes, at which the
\* content signal fires, at MaxChunk bytes, or at the end of the input.
\* ------------------------------------------------------------------------
IsCutPoint(b) == b % 2 = 1

RECURSIVE NextChunkLen(_, _, _)
NextChunkLen(v, start, n) ==
    IF start + n - 1 >= Len(v) THEN Len(v) - start + 1
    ELSE IF n >= MaxChunk THEN n
    ELSE IF n >= MinChunk /\ IsCutPoint(v[start + n - 1]) THEN n
    ELSE NextChunkLen(v, start, n + 1)

\* next_chunk at offset file_off of content v: the number of bytes of the
\* next chunk, 0 at the end of the input.
next_chunk(v, file_off) ==
    IF file_off >= Len(v) THEN 0 ELSE NextChunkLen(v, file_off + 1, 1)

\* ------------------------------------------------------------------------
\* Paths (std::path)
\* ------------------------------------------------------------------------
RECURSIVE SplitAt(_, _, _)
\* the segments of string s between separators, from position i, with the
\* segment being collected in cur
SplitAt(s, i, cur) ==
    IF i > Len(s) THEN <<cur>>
    ELSE IF s[i] = ChSlash THEN <<cur>> \o SplitAt(s, i + 1, <<>>)
    ELSE SplitAt(s, i + 1, Append(cur, s[i]))

\* str::split('/')
Segments(s) == SplitAt(s, 1, <<>>)

\* Path::components: empty segments and interior "." are dropped; a leading
\* "/" is the root component, kept as the segment <<ChSlash>>.
Components(s) ==
    LET Of(segs) ==
            (IF s[1] = ChSlash THEN <<(<<ChSlash>>)>>
             ELSE IF Len(segs) > 0 /\ segs[1] = <<ChDot>> THEN <<(<<ChDot>>)>>
             ELSE <<>>)
            \o SelectSeq(segs, LAMBDA g : g # <<>> /\ g # <<ChDot>>)
    IN  IF s = <<>> THEN <<>> ELSE Of(Segments(s))

\* Path::is_absolute (unix)
is_absolute(s) == Len(s) > 0 /\ s[1] = ChSlash

RECURSIVE JoinFrom(_, _)
JoinFrom(comps, i) ==
    IF i > Len(comps) THEN <<>>
    ELSE IF i = Len(comps) THEN comps[i]
    ELSE comps[i] \o <<ChSlash>> \o JoinFrom(comps, i + 1)

\* the string of a component list
JoinComps(comps) ==
    IF Len(comps) > 0 /\ comps[1] = <<ChSlash>>
    THEN <<ChSlash>> \o JoinFrom(comps, 2)
    ELSE JoinFrom(comps, 1)

\* byte-wise lexicographic order of strings (Ord for [u8])
RECURSIVE StrLess(_, _, _)
StrLess(a, b, i) ==
    IF i > Len(b) THEN FALSE
    ELSE IF i > Len(a) THEN TRUE
    ELSE IF a[i] # b[i] THEN a[i] < b[i]
    ELSE StrLess(a, b, i + 1)

\* Ord for Path: component-wise lexicographic
RECURSIVE CompsLess(_, _, _)
CompsLess(a, b, i) ==
    IF i > Len(b) THEN FALSE
    ELSE IF i > Len(a) THEN TRUE
    ELSE IF a[i] # b[i] THEN StrLess(a[i], b[i], 1)
    ELSE CompsLess(a, b, i + 1)
PathLess(p, q) == CompsLess(Components(p), Components(q), 1)

\* Vec<PathBuf>::sort of a set of distinct paths
RECURSIVE SortPaths(_)
SortPaths(S) ==
    IF S = {} THEN <<>>
    ELSE LET m == CHOOSE x \in S : \A y \in S \ {x} : ~PathLess(y, x)
         IN  <<m>> \o SortPaths(S \ {m})

\* Path::strip_prefix: base's components are a prefix of path's
HasPrefix(path, base) ==
    LET Of(pc, bc) == Len(bc) <= Len(pc) /\ SubSeq(pc, 1, Len(bc)) = bc
    IN  Of(Components(path), Components(base))
StripPrefix(path, base) ==
    LET Of(pc, bc) == JoinComps(SubSeq(pc, Len(bc) + 1, Len(pc)))
    IN  Of(Components(path), Components(base))

\* Path::join: an absolute right-hand side replaces the left
PathJoin(root, rel) ==
    IF is_absolute(rel) THEN rel
    ELSE IF root # <<>> /\ root[Len(root)] # ChSlash THEN root \o <<ChSlash>> \o rel
    ELSE root \o rel

\* ------------------------------------------------------------------------
\* Manifest (container/manifest.rs) and its CBOR form
\* ------------------------------------------------------------------------
EncChunkRef(r) ==
    CborMap(2) \o CborText(MKey.id) \o CborUint(r.id)
               \o CborText(MKey.u_size) \o CborUint(r.u_size)
EncFileEntry(f) ==
    CborMap(5) \o CborText(MKey.path) \o CborText(f.path)
               \o CborText(MKey.mode) \o CborUint(f.mode)
               \o CborText(MKey.mtime) \o CborUint(f.mtime)
               \o CborText(MKey.u_size) \o CborUint(f.u_size)
               \o CborText(MKey.chunk_refs) \o CborArr(Len(f.chunk_refs))
               \o Concat([i \in 1..Len(f.chunk_refs) |-> EncChunkRef(f.chunk_refs[i])])
EncDirEntry(d) ==
    CborMap(3) \o CborText(MKey.path) \o CborText(d.path)
               \o CborText(MKey.mode) \o CborUint(d.mode)
               \o CborText(MKey.mtime) \o CborUint(d.mtime)
EncMeta(m) ==
    CborMap(2) \o CborText(MKey.created) \o CborUint(m.created)
               \o CborText(MKey.tool) \o CborText(m.tool)

\* ciborium::ser::into_writer(&manifest, ..)
EncManifest(m) ==
    Bytes(CborMap(3)
          \o CborText(MKey.files) \o CborArr(Len(m.files))
          \o Concat([i \in 1..Len(m.files) |-> EncFileEntry(m.files[i])])
          \o CborText(MKey.dirs) \o CborArr(Len(m.dirs))
          \o Concat([i \in 1..Len(m.dirs) |-> EncDirEntry(m.dirs[i])])
          \o CborText(MKey.meta) \o EncMeta(m.meta))

\* the order and names of the fields the derived Deserialize expects
ChunkRefSchema == <<ItMap(2), ItKey(MKey.id), It("uint"), ItKey(MKey.u_size), It("uint")>>
FileEntrySchema ==
    <<ItMap(5), ItKey(MKey.path), It("text"), ItKey(MKey.mode), It("uint"),
      ItKey(MKey.mtime), It("uint"), ItKey(MKey.u_size), It("uint"),
      ItKey(MKey.chunk_refs), ItList(ChunkRefSchema)>>
DirEntrySchema ==
    <<ItMap(3), ItKey(MKey.path), It("text"), ItKey(MKey.mode), It("uint"),
      ItKey(MKey.mtime), It("uint")>>
ManifestSchema ==
    <<ItMap(3), ItKey(MKey.files), ItList(FileEntrySchema),
      ItKey(MKey.dirs), ItList(DirEntrySchema),
      ItKey(MKey.meta), ItMap(2), ItKey(MKey.created), It("uint"),
      ItKey(MKey.tool), It("text")>>

\* ciborium::de::from_reader::<Manifest>: ok and the manifest, or a failure
DecManifest(s) ==
    LET RefOf(x) == [id |-> x[1], u_size |-> x[2]]
        FileOf(x) == [path |-> x[1], mode |-> x[2], mtime |-> x[3], u_size |-> x[4],
                      chunk_refs |-> [j \in 1..Len(x[5]) |-> RefOf(x[5][j])]]
        DirOf(x) == [path |-> x[1], mode |-> x[2], mtime |-> x[3]]
        Of(r) ==
            IF r.ok
            THEN [ok |-> TRUE,
                  v |-> [files |-> [i \in 1..Len(r.v[1]) |-> FileOf(r.v[1][i])],
                         dirs |-> [i \in 1..Len(r.v[2]) |-> DirOf(r.v[2][i])],
                         meta |-> [created |-> r.v[3], tool |-> r.v[4]]]]
            ELSE [ok |-> FALSE, v |-> 0]
    IN  Of(PItems(s, 1, ManifestSchema, 1))

\* ------------------------------------------------------------------------
\* Superblock, chunk table, tail (container/*.rs)
\* ------------------------------------------------------------------------
\* Superblock::write_to
SuperblockBytes(sb) ==
    Bytes(SB_MAGIC) \o LE16(sb.version) \o LE64(sb.manifest_len)
    \o LE64(sb.chunk_table_off) \o LE64(sb.chunk_count) \o LE64(sb.data_off)
    \o LE64(sb.flags)

\* Superblock::read_from on the first bytes of file f
SuperblockRead(f) ==
    IF Len(f) < HEADER_LEN THEN [ok |-> FALSE]
    ELSE IF [i \in 1..6 |-> CellVal(f[i])] # SB_MAGIC THEN [ok |-> FALSE]
    ELSE [ok |-> TRUE,
          version |-> FromLE16(ReadAt(f, 6, 2)),
          manifest_len |-> FromLE64(ReadAt(f, 8, 8)),
          chunk_table_off |-> FromLE64(ReadAt(f, 16, 8)),
          chunk_count |-> FromLE64(ReadAt(f, 24, 8)),
          data_off |-> FromLE64(ReadAt(f, 32, 8)),
          flags |-> FromLE64(ReadAt(f, 40, 8))]

\* one 32-byte entry of write_table
EntryBytes(e) ==
    <<(<<e.codec>>)>> \o [i \in 1..7 |-> <<0>>] \o LE64(e.u_size) \o LE64(e.c_size)
    \o LE64(e.data_off)

\* write_table
write_table(entries) == Concat([i \in 1..Len(entries) |-> EntryBytes(entries[i])])

\* read_table: at least count * ENTRY_SIZE bytes are needed
read_table_ok(raw, count) == count <= Len(raw) \div ENTRY_SIZE
read_table(raw, count) ==
    [i \in 1..count |->
        LET off == (i - 1) * ENTRY_SIZE IN
        [codec |-> CellVal(raw[off + 1]),
         u_size |-> FromLE64(ReadAt(raw, off + 8, 8)),
         c_size |-> FromLE64(ReadAt(raw, off + 16, 8)),
         data_off |-> FromLE64(ReadAt(raw, off + 24, 8))]]

\* TailSummary::write_to
TailBytes(t) ==
    Bytes(TAIL_MAGIC) \o t.manifest_blake3 \o t.chunktab_blake3 \o t.data_blake3
    \o LE64(t.total_u) \o LE64(t.total_c)

\* read_tail_at_eof + TailSummary::read_from
read_tail_at_eof(f) ==
    LET Of(t) ==
            IF [i \in 1..8 |-> CellVal(t[i])] # TAIL_MAGIC THEN [ok |-> FALSE]
            ELSE [ok |-> TRUE,
                  manifest_blake3 |-> SubSeq(t, 9, 40),
                  chunktab_blake3 |-> SubSeq(t, 41, 72),
                  data_blake3 |-> SubSeq(t, 73, 104),
                  total_u |-> FromLE64(SubSeq(t, 105, 112)),
                  total_c |-> FromLE64(SubSeq(t, 113, 120))]
    IN  IF Len(f) < TAIL_LEN THEN [ok |-> FALSE]
        ELSE Of(ReadAt(f, Len(f) - TAIL_LEN, TAIL_LEN))

\* seek(Start(off)) then write_all(bytes) on file f: a gap is zero-filled
WriteAt(f, off, bytes) ==
    LET n == Max2(Len(f), off + Len(bytes)) IN
    [i \in 1..n |->
        IF i > off /\ i <= off + Len(bytes) THEN bytes[i - off]
        ELSE IF i <= Len(f) THEN f[i]
        ELSE <<0>>]

\* ------------------------------------------------------------------------
\* The container writer (pack/writer.rs)
\* ------------------------------------------------------------------------
\* min_gain is an f32; the model holds it as a multiple of 2^-28, which
\* represents 0.05f32 (= 13421773 * 2^-28) exactly.
GainScale == 16384 * 16384
DefaultMinGain == 13421773
NoKey == 0 - 1

RECURSIVE SumField(_, _)
\* the sum of u_size over a sequence of records
SumField(xs, i) == IF i > Len(xs) THEN 0 ELSE xs[i].u_size + SumField(xs, i + 1)

no_clamp_min_gain(opts) == IF opts.some THEN opts.min_gain ELSE DefaultMinGain
effective_min_gain(opts) ==
    LET val == IF opts.some THEN opts.min_gain ELSE DefaultMinGain
    IN  IF val <= 0 THEN DefaultMinGain ELSE val

should_compress(u, c, min_gain) == (u - c) * GainScale >= u * min_gain

\* the planning loop of one file (writer.rs 149-182) over content v
RECURSIVE PlanChunks(_, _, _)
PlanChunks(v, file_off, min_gain) ==
    LET Chunk(n, buf, z_csize, zs) ==
            [hash |-> Blake3(buf), u_size |-> n,
             c_size |-> IF zs THEN z_csize ELSE n,
             codec |-> IF zs THEN CodecZstd ELSE CodecStore,
             file_off |-> file_off]
        Sized(n, buf, z_csize) ==
            Chunk(n, buf, z_csize, should_compress(n, z_csize, min_gain))
        Read(n, buf) == Sized(n, buf, Len(ZstdCompress(buf)))
        Of(n) ==
            IF n = 0 THEN <<>>
            ELSE <<Read(n, Bytes(SubSeq(v, file_off + 1, file_off + n)))>>
                 \o PlanChunks(v, file_off + n, min_gain)
    IN  Of(next_chunk(v, file_off))

\* a task whose total_u is assigned, not accumulated
PlanFileLastOnly(src_path, file, min_gain) ==
    LET Of(chunks) ==
            [path |-> src_path, mode |-> file.mode, mtime |-> file.mtime,
             u_size |-> IF chunks = <<>> THEN 0 ELSE chunks[Len(chunks)].u_size,
             chunks |-> chunks]
    IN  Of(PlanChunks(file.content, 0, min_gain))

\* one task of the parallel map (writer.rs 140-191)
PlanFile(src_path, file, min_gain) ==
    LET Of(chunks) ==
            [path |-> src_path, mode |-> file.mode, mtime |-> file.mtime,
             u_size |-> SumField(chunks, 1), chunks |-> chunks]
    IN  Of(PlanChunks(file.content, 0, min_gain))

NoPlan == [path |-> <<>>, mode |-> 0, mtime |-> 0, u_size |-> 0, chunks |-> <<>>]

\* rel_display
rel_display(path, roots) ==
    IF \E i \in 1..Len(roots) : HasPrefix(path, roots[i])
    THEN StripPrefix(path,
             roots[CHOOSE i \in 1..Len(roots) :
                      /\ HasPrefix(path, roots[i])
                      /\ \A j \in 1..(i - 1) : ~HasPrefix(path, roots[j])])
    ELSE path

\* the dedup loop over one file's chunks (writer.rs 210-245); st carries
\* chunk_map, chunk_entries, plans and the refs of the current file
DedupAlwaysNew(st, nc) == FALSE
DedupIsDuplicate(st, nc) == nc.hash \in DOMAIN st.chunk_map

RECURSIVE DedupChunks(_, _, _, _)
DedupChunks(st, fp, k, enc) ==
    IF k > Len(fp.chunks) THEN st
    ELSE LET nc == fp.chunks[k] IN
         IF DedupIsDuplicate(st, nc)
         THEN DedupChunks(
                  [st EXCEPT !.refs = Append(@, [id |-> st.chunk_map[nc.hash],
                                                  u_size |-> nc.u_size])],
                  fp, k + 1, enc)
         ELSE LET id == Len(st.chunk_entries)
                  csz == IF enc THEN nc.c_size + TAG_LEN ELSE nc.c_size
              IN  DedupChunks(
                      [chunk_map |-> (nc.hash :> id) @@ st.chunk_map,
                       chunk_entries |-> Append(st.chunk_entries,
                           [codec |-> nc.codec, u_size |-> nc.u_size,
                            c_size |-> csz, data_off |-> 0]),
                       plans |-> Append(st.plans,
                           [src |-> fp.path, off |-> nc.file_off,
                            len |-> nc.u_size, codec |-> nc.codec]),
                       refs |-> Append(st.refs, [id |-> id, u_size |-> nc.u_size]),
                       file_entries |-> st.file_entries],
                      fp, k + 1, enc)

\* the loop over file plans (writer.rs 208-254)
RECURSIVE DedupFiles(_, _, _, _, _, _)
DedupFiles(st, file_plans, i, enc, deterministic, roots) ==
    IF i > Len(file_plans) THEN st
    ELSE LET Entry(fp, s1, path) ==
                 [path |-> path, mode |-> fp.mode,
                  mtime |-> IF deterministic THEN 0 ELSE fp.mtime,
                  u_size |-> fp.u_size, chunk_refs |-> s1.refs]
             Of(fp, s1, path) ==
                 DedupFiles([s1 EXCEPT !.file_entries = Append(@, Entry(fp, s1, path))],
                            file_plans, i + 1, enc, deterministic, roots)
         IN  Of(file_plans[i],
                DedupChunks([st EXCEPT !.refs = <<>>], file_plans[i], 1, enc),
                rel_display(file_plans[i].path, roots))

DedupInit ==
    [chunk_map |-> <<>>, chunk_entries |-> <<>>, plans |-> <<>>, refs |-> <<>>,
     file_entries |-> <<>>]

\* a cursor that is not advanced by c_size
PatchNoAdvance(entries, i, cursor) ==
    [j \in 1..Len(entries) |-> [entries[j] EXCEPT !.data_off = cursor]]

\* the cursor loop patching data_off (writer.rs 327-331)
RECURSIVE PatchOffsets(_, _, _)
PatchOffsets(entries, i, cursor) ==
    IF i > Len(entries) THEN <<>>
    ELSE <<[entries[i] EXCEPT !.data_off = cursor]>>
         \o PatchOffsets(entries, i + 1, cursor + entries[i].c_size)

\* created (writer.rs 196-200)
CreatedNow(deterministic, now) == now
CreatedStamp(deterministic, now) == IF deterministic THEN 0 ELSE now

\* Manifest planning and layout (writer.rs 194-346): everything pack
\* computes between the planning map and the creation of the output file.
Layout(file_plans, dirs, dirmeta, opts, now, roots) ==
    LET deterministic == opts.some /\ opts.deterministic
        enc_enabled == opts.some /\ opts.aead_key # NoKey
        \* a region as it goes to the file (writer.rs 300-307, 338-345)
        Region(region, ad, plain) ==
            IF enc_enabled
            THEN seal_whole(opts.aead_key, derive_nonce(opts.key_salt, region, 0),
                            ad, plain)
            ELSE plain
        table_len(d) ==
            IF enc_enabled THEN Len(d.chunk_entries) * ENTRY_SIZE + TAG_LEN
            ELSE Len(d.chunk_entries) * ENTRY_SIZE
        Laid(d, manifest, manifest_plain, manifest_bytes, chunk_entries, table_plain,
             table_bytes) ==
            [manifest |-> manifest, manifest_bytes |-> manifest_bytes,
             manifest_len |-> Len(manifest_bytes),
             chunk_count |-> Len(d.chunk_entries),
             chunk_table_off |-> HEADER_LEN + Len(manifest_bytes),
             data_off |-> HEADER_LEN + Len(manifest_bytes) + table_len(d),
             chunk_entries |-> chunk_entries, plans |-> d.plans,
             table_bytes |-> table_bytes,
             flags |-> IF enc_enabled THEN FLAG_ENCRYPTED ELSE 0,
             enc_enabled |-> enc_enabled,
             h_manifest |-> manifest_plain, h_chunktab |-> table_plain,
             h_data |-> <<>>, total_u |-> 0, total_c |-> 0, i |-> 0]
        Table(d, manifest, manifest_plain, manifest_bytes, chunk_entries,
              table_plain) ==
            Laid(d, manifest, manifest_plain, manifest_bytes, chunk_entries,
                 table_plain, Region(RegionChunkTable, AdLabel.chunktab, table_plain))
        Patched(d, manifest, manifest_plain, manifest_bytes, chunk_entries) ==
            Table(d, manifest, manifest_plain, manifest_bytes, chunk_entries,
                  write_table(chunk_entries))
        Offsets(d, manifest, manifest_plain, manifest_bytes) ==
            Patched(d, manifest, manifest_plain, manifest_bytes,
                    PatchOffsets(d.chunk_entries, 1,
                                 HEADER_LEN + Len(manifest_bytes) + table_len(d)))
        Encoded(d, manifest, manifest_plain) ==
            Offsets(d, manifest, manifest_plain,
                   Region(RegionManifest, AdLabel.manifest, manifest_plain))
        Listed(d, manifest) == Encoded(d, manifest, EncManifest(manifest))
        Of(d, dirs_entries) ==
            Listed(d, [files |-> d.file_entries, dirs |-> dirs_entries,
                        meta |-> [created |-> CreatedStamp(deterministic, now),
                                  tool |-> ToolName]])
    IN  Of(DedupFiles(DedupInit, file_plans, 1, enc_enabled, deterministic, roots),
           [i \in 1..Len(dirs) |->
               [path |-> rel_display(dirs[i], roots),
                mode |-> dirmeta[dirs[i]].mode,
                mtime |-> IF deterministic THEN 0 ELSE dirmeta[dirs[i]].mtime]])

NoLayout ==
    [manifest |-> [files |-> <<>>, dirs |-> <<>>,
                   meta |-> [created |-> 0, tool |-> <<>>]],
     manifest_bytes |-> <<>>, manifest_len |-> 0, chunk_count |-> 0,
     chunk_table_off |-> 0, data_off |-> 0, chunk_entries |-> <<>>,
     plans |-> <<>>, table_bytes |-> <<>>, flags |-> 0, enc_enabled |-> FALSE,
     h_manifest |-> <<>>, h_chunktab |-> <<>>, h_data |-> <<>>,
     total_u |-> 0, total_c |-> 0, i |-> 0]

\* Compress/store of one planned chunk (writer.rs 392-405)
CompressAlwaysStore(codec, plain) == plain
CompressPlain(codec, plain) ==
    IF codec = CodecStore THEN plain ELSE ZstdCompress(plain)

\* the bytes the data loop writes for chunk index i (0-based) (writer.rs 413-421)
ChunkOnDisk(w, opts, i, comp) ==
    IF w.enc_enabled
    THEN seal_whole(opts.aead_key, derive_nonce(opts.key_salt, RegionChunkData, i),
                    AdLabel.chunk, comp)
    ELSE comp

\* ------------------------------------------------------------------------
\* The host filesystem, as far as the readers and compaction use it.  A
\* location is the list of the names from the filesystem root; fs.dirs is
\* the set of directories, fs.files maps the regular files to their bytes.
\* ------------------------------------------------------------------------
DotDot == <<ChDot, ChDot>>

\* the names the kernel resolves: empty and "." segments are skipped
OsComps(s) == SelectSeq(Segments(s), LAMBDA g : g # <<>> /\ g # <<ChDot>>)

RECURSIVE WalkDirs(_, _, _, _, _)
\* resolve comps[i..n] from directory cur; every name must be a directory
WalkDirs(fs, cur, comps, i, n) ==
    IF i > n THEN [ok |-> TRUE, loc |-> cur, kind |-> "ok"]
    ELSE IF comps[i] = DotDot
         THEN WalkDirs(fs, IF cur = <<>> THEN cur ELSE SubSeq(cur, 1, Len(cur) - 1),
                       comps, i + 1, n)
    ELSE IF Append(cur, comps[i]) \in fs.dirs
         THEN WalkDirs(fs, Append(cur, comps[i]), comps, i + 1, n)
    ELSE [ok |-> FALSE, loc |-> cur,
          kind |-> IF Append(cur, comps[i]) \in DOMAIN fs.files
                   THEN "notdir" ELSE "notfound"]

\* mkdir(2)
os_mkdir(fs, s) ==
    LET At(name, target) ==
            IF name = DotDot \/ target \in fs.dirs \/ target \in DOMAIN fs.files
            THEN [res |-> "exists", fs |-> fs]
            ELSE [res |-> "ok", fs |-> [fs EXCEPT !.dirs = @ \cup {target}]]
        In(par, name) ==
            IF ~par.ok THEN [res |-> par.kind, fs |-> fs]
            ELSE At(name, Append(par.loc, name))
        Of(comps) ==
            IF Len(comps) = 0 THEN [res |-> "exists", fs |-> fs]
            ELSE In(WalkDirs(fs, <<>>, comps, 1, Len(comps) - 1), comps[Len(comps)])
    IN  Of(OsComps(s))

\* Path::is_dir
os_is_dir(fs, s) ==
    LET Of(comps) == WalkDirs(fs, <<>>, comps, 1, Len(comps)).ok
    IN  Of(OsComps(s))

\* Path::parent as a string; <<>> for a single relative component
RustParent(s) ==
    LET Of(c) == JoinComps(SubSeq(c, 1, Len(c) - 1)) IN Of(Components(s))
HasRustParent(s) ==
    LET Of(c) == Len(c) > 0 /\ c # <<(<<ChSlash>>)>> IN Of(Components(s))

RECURSIVE create_dir_all(_, _)
\* std::fs::create_dir_all (DirBuilder::create_dir_all)
create_dir_all(fs, s) ==
    IF s = <<>> THEN [ok |-> TRUE, fs |-> fs]
    ELSE LET \* Ok(()) => Ok(()), Err(_) if path.is_dir() => Ok(())
             Made(m, in) ==
                 IF m.res = "ok" THEN [ok |-> TRUE, fs |-> m.fs]
                 ELSE [ok |-> os_is_dir(in, s), fs |-> in]
             Again(par) ==
                 IF ~par.ok THEN par ELSE Made(os_mkdir(par.fs, s), par.fs)
             Of(m) ==
                 IF m.res # "notfound" THEN Made(m, fs)
                 ELSE IF ~HasRustParent(s) THEN [ok |-> FALSE, fs |-> fs]
                 ELSE Again(create_dir_all(fs, RustParent(s)))
         IN  Of(os_mkdir(fs, s))

\* File::create: open(O_WRONLY | O_CREAT | O_TRUNC); loc is the file created
file_create(fs, s) ==
    LET At(name, target) ==
            IF name = DotDot \/ target \in fs.dirs
            THEN [ok |-> FALSE, fs |-> fs, loc |-> <<>>]
            ELSE [ok |-> TRUE, loc |-> target,
                  fs |-> [fs EXCEPT !.files =
                             [x \in (DOMAIN fs.files) \cup {target} |->
                                 IF x = target THEN <<>> ELSE fs.files[x]]]]
        In(par, name) ==
            IF ~par.ok THEN [ok |-> FALSE, fs |-> fs, loc |-> <<>>]
            ELSE At(name, Append(par.loc, name))
        Of(comps) ==
            IF Len(comps) = 0 \/ s[Len(s)] = ChSlash
            THEN [ok |-> FALSE, fs |-> fs, loc |-> <<>>]
            ELSE In(WalkDirs(fs, <<>>, comps, 1, Len(comps) - 1), comps[Len(comps)])
    IN  Of(OsComps(s))

\* write_all on an open file: the bytes are appended
file_append(fs, loc, bytes) == [fs EXCEPT !.files[loc] = @ \o bytes]

\* str::contains
Contains(s, sub) ==
    \E i \in 1..(Len(s) - Len(sub) + 1) : SubSeq(s, i, i + Len(sub) - 1) = sub

\* ------------------------------------------------------------------------
\* extract and verify (read/extract.rs)
\* ------------------------------------------------------------------------
SatAdd(a, b) == IF a > Huge - b THEN Huge ELSE a + b

\* safe_join's test: the path is refused
unsafe_path(rel) ==
    \/ is_absolute(rel)
    \/ Contains(rel, <<ChDot, ChDot, ChSlash>>)
    \/ Contains(rel, <<ChDot, ChDot, ChBackslash>>)

\* the reader's key: Some((key, salt)), or the error of a missing key
ReaderHasKey(ropts) == ropts.some /\ ropts.aead_key # NoKey

\* the chunk loop of one file (extract.rs 82-118); out is the file written
RECURSIVE ExtractChunks(_, _, _, _, _, _, _, _)
ExtractChunks(f, table, enc, ropts, refs, k, fs, out) ==
    IF k > Len(refs) THEN [status |-> "ok", fs |-> fs]
    ELSE LET Written(bytes) ==
                 ExtractChunks(f, table, enc, ropts, refs, k + 1,
                               file_append(fs, out, bytes), out)
             Decode(codec, comp) ==
                 IF codec = CodecStore THEN Written(comp)
                 ELSE IF codec = CodecZstd /\ ZstdValid(comp)
                      THEN Written(ZstdDecompress(comp))
                 ELSE [status |-> "err", fs |-> fs]
             Opened(id, ce, cbuf) ==
                 IF enc /\ ~aead_ok(ropts.aead_key,
                                    derive_nonce(ropts.key_salt, RegionChunkData, id),
                                    AdLabel.chunk, cbuf)
                 THEN [status |-> "panic", fs |-> fs]
                 ELSE Decode(ce.codec, IF enc THEN aead_plain(cbuf) ELSE cbuf)
             Entry(id, ce) ==
                 IF ~CanRead(f, ce.data_off, ce.c_size)
                 THEN [status |-> "err", fs |-> fs]
                 ELSE Opened(id, ce, ReadAt(f, ce.data_off, ce.c_size))
         IN  IF refs[k].id >= Len(table) THEN [status |-> "panic", fs |-> fs]
             ELSE Entry(refs[k].id, table[refs[k].id + 1])

\* the loop over manifest.files (extract.rs 75-125)
RECURSIVE ExtractFiles(_, _, _, _, _, _, _, _)
ExtractFiles(f, table, enc, ropts, files, i, fs, dest) ==
    IF i > Len(files) THEN [status |-> "ok", fs |-> fs]
    ELSE LET Written(fe, loc, wr) ==
                 IF wr.status # "ok" THEN wr
                 ELSE IF Len(wr.fs.files[loc]) # fe.u_size
                      THEN [status |-> "err", fs |-> wr.fs]
                 ELSE ExtractFiles(f, table, enc, ropts, files, i + 1, wr.fs, dest)
             Created(fe, cr) ==
                 IF ~cr.ok THEN [status |-> "err", fs |-> cr.fs]
                 ELSE Written(fe, cr.loc,
                              ExtractChunks(f, table, enc, ropts, fe.chunk_refs, 1,
                                            cr.fs, cr.loc))
             InParent(fe, outp, par) ==
                 IF ~par.ok THEN [status |-> "err", fs |-> par.fs]
                 ELSE Created(fe, file_create(par.fs, outp))
             Joined(fe, outp) ==
                 InParent(fe, outp,
                          IF HasRustParent(outp)
                          THEN create_dir_all(fs, RustParent(outp))
                          ELSE [ok |-> TRUE, fs |-> fs])
         IN  IF unsafe_path(files[i].path) THEN [status |-> "err", fs |-> fs]
             ELSE Joined(files[i], PathJoin(dest, files[i].path))

\* the loop over manifest.dirs (extract.rs 68-71)
RECURSIVE ExtractDirs(_, _, _, _)
ExtractDirs(dirs, i, fs, dest) ==
    IF i > Len(dirs) THEN [status |-> "ok", fs |-> fs]
    ELSE LET Of(mk) == IF ~mk.ok THEN [status |-> "err", fs |-> mk.fs]
                        ELSE ExtractDirs(dirs, i + 1, mk.fs, dest)
         IN  IF unsafe_path(dirs[i].path) THEN [status |-> "err", fs |-> fs]
             ELSE Of(create_dir_all(fs, PathJoin(dest, dirs[i].path)))

\* extract(archive, dest, opts) on archive bytes f and filesystem fs
extract(f, fs, dest, ropts) ==
    LET \* the region at off, opened when the archive is sealed: its
        \* plaintext, or the error of the read or the panic of open_whole
        Opened(enc, bytes, region, ad) ==
            IF enc /\ ~aead_ok(ropts.aead_key,
                               derive_nonce(ropts.key_salt, region, 0), ad, bytes)
            THEN [status |-> "panic", plain |-> <<>>]
            ELSE [status |-> "ok", plain |-> IF enc THEN aead_plain(bytes) ELSE bytes]
        Region(enc, off, len, region, ad) ==
            IF ~CanRead(f, off, len) THEN [status |-> "err", plain |-> <<>>]
            ELSE Opened(enc, ReadAt(f, off, len), region, ad)
        Entries(enc, manifest, table, dr) ==
            IF dr.status # "ok" THEN dr
            ELSE ExtractFiles(f, table, enc, ropts, manifest.files, 1, dr.fs, dest)
        Table(sb, enc, manifest, tab) ==
            IF tab.status # "ok" THEN [status |-> tab.status, fs |-> fs]
            ELSE IF ~read_table_ok(tab.plain, sb.chunk_count)
                 THEN [status |-> "err", fs |-> fs]
            ELSE Entries(enc, manifest, read_table(tab.plain, sb.chunk_count),
                         ExtractDirs(manifest.dirs, 1, fs, dest))
        Decoded(sb, enc, manifest) ==
            IF ~manifest.ok THEN [status |-> "err", fs |-> fs]
            ELSE IF sb.data_off < sb.chunk_table_off THEN [status |-> "panic", fs |-> fs]
            ELSE Table(sb, enc, manifest.v,
                       Region(enc, sb.chunk_table_off, sb.data_off - sb.chunk_table_off,
                              RegionChunkTable, AdLabel.chunktab))
        Manifest(sb, enc, man) ==
            IF man.status # "ok" THEN [status |-> man.status, fs |-> fs]
            ELSE Decoded(sb, enc, DecManifest(man.plain))
        Of(sb, enc) ==
            IF ~sb.ok THEN [status |-> "err", fs |-> fs]
            ELSE IF enc /\ ~ReaderHasKey(ropts) THEN [status |-> "err", fs |-> fs]
            ELSE Manifest(sb, enc,
                          Region(enc, HEADER_LEN, sb.manifest_len, RegionManifest,
                                 AdLabel.manifest))
        Read(sb) == Of(sb, sb.ok /\ sb.flags % 2 = 1)
    IN  Read(SuperblockRead(f))

\* the chunk loop of verify (extract.rs 201-216)
RECURSIVE VerifyChunks(_, _, _, _, _, _)
VerifyChunks(f, table, enc, ropts, id, acc) ==
    IF id >= Len(table) THEN acc
    ELSE LET Hashed(ce, comp_plain) ==
                 VerifyChunks(f, table, enc, ropts, id + 1,
                     [status |-> "ok", h_data |-> acc.h_data \o comp_plain,
                      total_u |-> SatAdd(acc.total_u, ce.u_size),
                      total_c |-> SatAdd(acc.total_c, Len(comp_plain))])
             Opened(ce, cbuf) ==
                 IF enc /\ ~aead_ok(ropts.aead_key,
                                    derive_nonce(ropts.key_salt, RegionChunkData, id),
                                    AdLabel.chunk, cbuf)
                 THEN [acc EXCEPT !.status = "panic"]
                 ELSE Hashed(ce, IF enc THEN aead_plain(cbuf) ELSE cbuf)
             Entry(ce) ==
                 IF ~CanRead(f, ce.data_off, ce.c_size) THEN [acc EXCEPT !.status = "err"]
                 ELSE Opened(ce, ReadAt(f, ce.data_off, ce.c_size))
         IN  Entry(table[id + 1])

\* the comparison with the tail (extract.rs 220-224)
TailSkipsData(tail, got_manifest, got_tab, got) ==
    /\ tail.manifest_blake3 = got_manifest
    /\ tail.chunktab_blake3 = got_tab
    /\ tail.total_u = got.total_u
    /\ tail.total_c = got.total_c
TailMatches(tail, got_manifest, got_tab, got) ==
    /\ tail.manifest_blake3 = got_manifest
    /\ tail.chunktab_blake3 = got_tab
    /\ tail.data_blake3 = Blake3(got.h_data)
    /\ tail.total_u = got.total_u
    /\ tail.total_c = got.total_c

\* verify(archive, opts) on archive bytes f: "ok", "err" or "panic"
verify(f, ropts) ==
    LET Opened(enc, bytes, region, ad) ==
            IF enc /\ ~aead_ok(ropts.aead_key,
                               derive_nonce(ropts.key_salt, region, 0), ad, bytes)
            THEN [status |-> "panic", plain |-> <<>>]
            ELSE [status |-> "ok", plain |-> IF enc THEN aead_plain(bytes) ELSE bytes]
        Region(enc, off, len, region, ad) ==
            IF ~CanRead(f, off, len) THEN [status |-> "err", plain |-> <<>>]
            ELSE Opened(enc, ReadAt(f, off, len), region, ad)
        Compared(tail, manifest_plain, chunktab_plain, got) ==
            IF got.status # "ok" THEN got.status
            ELSE IF TailMatches(tail, Blake3(manifest_plain), Blake3(chunktab_plain),
                                got)
                 THEN "ok"
            ELSE "err"
        Table(sb, enc, tail, manifest_plain, tab) ==
            IF tab.status # "ok" THEN tab.status
            ELSE IF ~read_table_ok(tab.plain, sb.chunk_count) THEN "err"
            ELSE Compared(tail, manifest_plain, tab.plain,
                          VerifyChunks(f, read_table(tab.plain, sb.chunk_count), enc,
                                       ropts, 0,
                                       [status |-> "ok", h_data |-> <<>>,
                                        total_u |-> 0, total_c |-> 0]))
        Manifest(sb, enc, tail, man) ==
            IF man.status # "ok" THEN man.status
            ELSE IF sb.data_off < sb.chunk_table_off THEN "panic"
            ELSE Table(sb, enc, tail, man.plain,
                       Region(enc, sb.chunk_table_off, sb.data_off - sb.chunk_table_off,
                              RegionChunkTable, AdLabel.chunktab))
        Of(sb, enc, tail) ==
            IF ~sb.ok \/ ~tail.ok THEN "err"
            ELSE IF enc /\ ~ReaderHasKey(ropts) THEN "err"
            ELSE Manifest(sb, enc, tail,
                          Region(enc, HEADER_LEN, sb.manifest_len, RegionManifest,
                                 AdLabel.manifest))
        Read(sb) == Of(sb, sb.ok /\ sb.flags % 2 = 1, read_tail_at_eof(f))
    IN  Read(SuperblockRead(f))

\* ------------------------------------------------------------------------
\* Opened::open, list (read/opened.rs, list.rs) and the streaming readers
\* (read/stream.rs)
\* ------------------------------------------------------------------------
\* a data region that always ends TAIL_LEN bytes before the end of the file
file_end_tail_assumed(f) == Len(f) - TAIL_LEN

\* the probe for the tail magic in the last TAIL_LEN bytes
file_end_for_data(f) ==
    IF Len(f) >= TAIL_LEN
       /\ [i \in 1..8 |-> CellVal(f[Len(f) - TAIL_LEN + i])] = TAIL_MAGIC
    THEN Len(f) - TAIL_LEN
    ELSE Len(f)

\* the bound test on one chunk-table entry (opened.rs 109-111, list.rs 249-260)
EntryInBounds(ce, sb, file_end) ==
    /\ ce.data_off >= sb.data_off
    /\ SatAdd(ce.data_off, ce.c_size) <= file_end

NoArx == [sb |-> [ok |-> FALSE], manifest |-> 0, table |-> <<>>, enc |-> FALSE,
          key |-> NoKey, salt |-> 0, file_end_for_data |-> 0]

\* Opened::open(path, aead_key, key_salt) on archive bytes f: the status
\* "ok", "err" or "panic", and the Opened value
OpenedOpen(f, ropts) ==
    LET Opened(enc, bytes, region, ad) ==
            IF enc /\ ~aead_ok(ropts.aead_key,
                               derive_nonce(ropts.key_salt, region, 0), ad, bytes)
            THEN [status |-> "panic", plain |-> <<>>]
            ELSE [status |-> "ok", plain |-> IF enc THEN aead_plain(bytes) ELSE bytes]
        Region(enc, off, len, region, ad) ==
            IF ~CanRead(f, off, len) THEN [status |-> "err", plain |-> <<>>]
            ELSE Opened(enc, ReadAt(f, off, len), region, ad)
        Fail(st) == [status |-> st, arx |-> NoArx]
        Bounds(sb, enc, manifest, table, file_end) ==
            IF \E i \in 1..Len(table) : ~EntryInBounds(table[i], sb, file_end)
            THEN Fail("err")
            ELSE [status |-> "ok",
                  arx |-> [sb |-> sb, manifest |-> manifest, table |-> table,
                           enc |-> enc,
                           key |-> IF enc THEN ropts.aead_key ELSE NoKey,
                           salt |-> IF enc THEN ropts.key_salt ELSE 0,
                           file_end_for_data |-> file_end]]
        Table(sb, enc, manifest, tab) ==
            IF tab.status # "ok" THEN Fail(tab.status)
            ELSE IF Len(tab.plain) # sb.chunk_count * ENTRY_SIZE THEN Fail("err")
            ELSE Bounds(sb, enc, manifest, read_table(tab.plain, sb.chunk_count),
                        file_end_for_data(f))
        Decoded(sb, enc, manifest) ==
            IF ~manifest.ok THEN Fail("err")
            ELSE IF sb.data_off < sb.chunk_table_off THEN Fail("panic")
            ELSE Table(sb, enc, manifest.v,
                       Region(enc, sb.chunk_table_off, sb.data_off - sb.chunk_table_off,
                              RegionChunkTable, AdLabel.chunktab))
        Manifest(sb, enc, man) ==
            IF man.status # "ok" THEN Fail(man.status)
            ELSE Decoded(sb, enc, DecManifest(man.plain))
        Of(sb, enc) ==
            IF ~sb.ok THEN Fail("err")
            ELSE IF enc /\ ~ReaderHasKey(ropts) THEN Fail("err")
            ELSE Manifest(sb, enc,
                          Region(enc, HEADER_LEN, sb.manifest_len, RegionManifest,
                                 AdLabel.manifest))
        Read(sb) == Of(sb, sb.ok /\ sb.flags % 2 = 1)
    IN  Read(SuperblockRead(f))

\* list(archive, opts) on archive bytes f: "ok", "err" or "panic"
list(f, ropts) ==
    LET Opened(enc, bytes, region, ad) ==
            IF enc /\ ~aead_ok(ropts.aead_key,
                               derive_nonce(ropts.key_salt, region, 0), ad, bytes)
            THEN [status |-> "panic", plain |-> <<>>]
            ELSE [status |-> "ok", plain |-> IF enc THEN aead_plain(bytes) ELSE bytes]
        Region(enc, off, len, region, ad) ==
            IF ~CanRead(f, off, len) THEN [status |-> "err", plain |-> <<>>]
            ELSE Opened(enc, ReadAt(f, off, len), region, ad)
        \* the summing loop indexes the table with every chunk id
        Printed(manifest, table) ==
            IF \E i \in 1..Len(manifest.files) :
                  \E j \in 1..Len(manifest.files[i].chunk_refs) :
                     manifest.files[i].chunk_refs[j].id >= Len(table)
            THEN "panic"
            ELSE "ok"
        Bounds(sb, manifest, table, file_end) ==
            IF \E i \in 1..Len(table) : ~EntryInBounds(table[i], sb, file_end)
            THEN "err"
            ELSE Printed(manifest, table)
        Table(sb, manifest, tab, file_end) ==
            IF tab.status # "ok" THEN tab.status
            ELSE IF Len(tab.plain) # sb.chunk_count * ENTRY_SIZE THEN "err"
            ELSE Bounds(sb, manifest, read_table(tab.plain, sb.chunk_count), file_end)
        Decoded(sb, enc, manifest, file_end) ==
            IF ~manifest.ok THEN "err"
            ELSE Table(sb, manifest.v,
                       Region(enc, sb.chunk_table_off, sb.data_off - sb.chunk_table_off,
                              RegionChunkTable, AdLabel.chunktab),
                       file_end)
        Manifest(sb, enc, man, file_end) ==
            IF man.status # "ok" THEN man.status
            ELSE Decoded(sb, enc, DecManifest(man.plain), file_end)
        Checked(sb, enc, file_end) ==
            IF SatAdd(HEADER_LEN, sb.manifest_len) > file_end THEN "err"
            ELSE IF sb.chunk_table_off < HEADER_LEN \/ sb.chunk_table_off > file_end
                 THEN "err"
            ELSE IF sb.data_off < sb.chunk_table_off \/ sb.data_off > file_end
                 THEN "err"
            ELSE IF enc /\ ~ReaderHasKey(ropts) THEN "err"
            ELSE Manifest(sb, enc,
                          Region(enc, HEADER_LEN, sb.manifest_len, RegionManifest,
                                 AdLabel.manifest),
                          file_end)
        Read(sb) ==
            IF ~sb.ok THEN "err"
            ELSE Checked(sb, sb.flags % 2 = 1, file_end_for_data(f))
    IN  Read(SuperblockRead(f))

NoReader == [kind |-> "none", chunk_ids |-> <<>>, cur |-> 0, has_buf |-> FALSE,
             cur_buf |-> <<>>, remain |-> 0, status |-> "none", out |-> <<>>,
             path |-> <<>>, start |-> 0, len |-> 0]

\* the width of the chunk ids a FileReader keeps (`v.id as u32`), scaled down
\* from 2^32 so that a table can hold more entries than the ids can tell apart
U32Wrap == 4

\* chunk_map_for and FileReader::new: the reader over the chunks of path
FileReaderNew(a, path) ==
    LET Of(fe) ==
            IF \E j \in 1..Len(fe.chunk_refs) : fe.chunk_refs[j].id >= Len(a.table)
            THEN [res |-> "panic", r |-> NoReader]
            ELSE [res |-> "ok",
                  r |-> [NoReader EXCEPT
                            !.kind = "file", !.status = "open", !.path = path,
                            !.chunk_ids = [j \in 1..Len(fe.chunk_refs) |->
                                              fe.chunk_refs[j].id % U32Wrap]]]
    IN  IF \A i \in 1..Len(a.manifest.files) : a.manifest.files[i].path # path
        THEN [res |-> "err", r |-> NoReader]
        ELSE Of(a.manifest.files[CHOOSE i \in 1..Len(a.manifest.files) :
                    /\ a.manifest.files[i].path = path
                    /\ \A j \in 1..(i - 1) : a.manifest.files[j].path # path])

\* Compressor::decompress from pt into a slice of u_size bytes, then
\* truncate to what was written (stream.rs 51-56); a longer output fails
DecodeInto(codec, pt, u_size) ==
    LET Fit(plain) == IF Len(plain) > u_size THEN [ok |-> FALSE, plain |-> <<>>]
                      ELSE [ok |-> TRUE, plain |-> plain]
    IN  IF codec = CodecStore THEN Fit(pt)
        ELSE IF codec = CodecZstd /\ ZstdValid(pt) THEN Fit(ZstdDecompress(pt))
        ELSE [ok |-> FALSE, plain |-> <<>>]

\* load_next from the ciphertext ct of entry idx on (stream.rs 42-60): AEAD
\* open, decompression, and the reader with the chunk as its buffer
open_chunk(a, r, idx, ce, ct) ==
    LET Loaded(d) ==
            IF ~d.ok THEN [res |-> "err", r |-> r]
            ELSE [res |-> "true",
                  r |-> [r EXCEPT !.cur = @ + 1, !.has_buf = TRUE, !.cur_buf = d.plain]]
    IN  IF a.enc /\ ~aead_ok(a.key, derive_nonce(a.salt, RegionChunkData, idx),
                             AdLabel.chunk, ct)
        THEN [res |-> "panic", r |-> r]
        ELSE Loaded(DecodeInto(ce.codec, IF a.enc THEN aead_plain(ct) ELSE ct,
                               ce.u_size))

\* FileReader::load_next on archive a with file bytes f: "true", "false",
\* "err" or "panic", and the reader
load_next(a, f, r) ==
    LET Entry(idx, ce) ==
            IF ~CanRead(f, ce.data_off, ce.c_size) THEN [res |-> "err", r |-> r]
            ELSE open_chunk(a, r, idx, ce, ReadAt(f, ce.data_off, ce.c_size))
    IN  IF r.cur >= Len(r.chunk_ids) THEN [res |-> "false", r |-> r]
        ELSE IF r.chunk_ids[r.cur + 1] >= Len(a.table) THEN [res |-> "panic", r |-> r]
        ELSE Entry(r.chunk_ids[r.cur + 1], a.table[r.chunk_ids[r.cur + 1] + 1])

\* <FileReader as Read>::read into a buffer of k bytes: the bytes returned
\* (none at the end of the stream), or the error of load_next
RECURSIVE FileRead(_, _, _, _)
FileRead(a, f, r, k) ==
    IF r.has_buf /\ r.cur_buf # <<>> /\ k > 0
    THEN [res |-> "ok", bytes |-> SubSeq(r.cur_buf, 1, Min2(k, Len(r.cur_buf))),
          r |-> [r EXCEPT !.cur_buf = SubSeq(@, Min2(k, Len(@)) + 1, Len(@))]]
    ELSE LET Of(ld) ==
                 IF ld.res = "false" THEN [res |-> "ok", bytes |-> <<>>, r |-> ld.r]
                 ELSE IF ld.res # "true" THEN [res |-> ld.res, bytes |-> <<>>, r |-> ld.r]
                 ELSE FileRead(a, f, ld.r, k)
         IN  Of(load_next(a, f, [r EXCEPT !.has_buf = FALSE, !.cur_buf = <<>>]))

\* the buffer io::copy reads with
CopyBuf == 8192

\* io::copy(&mut fr.take(start), &mut sink()) (stream.rs 90)
RECURSIVE SkipStart(_, _, _, _)
SkipStart(a, f, r, limit) ==
    IF limit = 0 THEN [res |-> "ok", r |-> r]
    ELSE LET Of(x) ==
                 IF x.res # "ok" THEN [res |-> x.res, r |-> x.r]
                 ELSE IF x.bytes = <<>> THEN [res |-> "ok", r |-> x.r]
                 ELSE SkipStart(a, f, x.r, limit - Len(x.bytes))
         IN  Of(FileRead(a, f, r, Min2(CopyBuf, limit)))

\* RangeReader::new(arx, path, start, len)
RangeReaderNew(a, f, path, start, len) ==
    LET Skipped(sk) ==
            IF sk.res # "ok" THEN [res |-> sk.res, r |-> NoReader]
            ELSE [res |-> "ok",
                  r |-> [sk.r EXCEPT !.kind = "range", !.remain = len,
                                     !.start = start, !.len = len]]
        Of(fr) == IF fr.res # "ok" THEN fr ELSE Skipped(SkipStart(a, f, fr.r, start))
    IN  Of(FileReaderNew(a, path))

\* a read of k bytes without the cap on the remaining length
RangeReadNoCap(a, f, r, k) == FileRead(a, f, r, k)

\* <RangeReader as Read>::read into a buffer of k bytes
RangeRead(a, f, r, k) ==
    LET Of(x) == [x EXCEPT !.r.remain = @ - Len(x.bytes)]
    IN  IF r.remain = 0 THEN [res |-> "ok", bytes |-> <<>>, r |-> r]
        ELSE Of(FileRead(a, f, r, Min2(r.remain, k)))

\* ------------------------------------------------------------------------
\* The state: a source tree, one run of pack on it stage by stage, and the
\* readers applied to the file pack wrote.
\* ------------------------------------------------------------------------
VARIABLES
    inputs,      \* pack's roots, a sequence of paths
    srcFiles,    \* source files: path -> [content, mode, mtime]
    srcDirs,     \* source directories: path -> [mode, mtime]
    opts,        \* PackOptions; opts.some = FALSE is None
    now,         \* OffsetDateTime::now_utc()
    pc,          \* pack's position
    files,       \* the sorted walk result (files)
    dirs,        \* the sorted walk result (directories)
    file_plans,  \* the collected FilePlan per index of files
    planned,     \* the indices whose planning task has finished
    w,           \* pack's locals from the manifest planning on
    out_f,       \* the bytes of the output file
    prev_out,    \* the output of the previous run on the same tree, if any
    fs,          \* the filesystem extract writes to
    extractRes,  \* "none" until extract has returned
    verifyRes,   \* "none" until verify has returned
    tamper,      \* 0, or 1 + the offset of the byte changed in out_f
    forged,      \* what else happened to a file or to the reader's key
    listRes,     \* "none" until list has returned
    openRes,     \* "none" until Opened::open has returned
    arx,         \* the Opened value, once Opened::open returned Ok
    rd,          \* the FileReader / RangeReader in use and what it yielded
    thr,         \* the File behind the Mutex and the readers of the threads
    logFile,     \* the journal sidecar: [exists, data]
    deltaFile,   \* the delta sidecar: [exists, data]
    jh,          \* the Journal handle: mode, header flags and salt, position
    dh,          \* the DeltaStore handle
    index,       \* InMemIndex.by_path of the open CrudArchive
    appended,    \* the records whose append returned Ok, in order
    lastOp,      \* the last sidecar operation
    iterRes,     \* what the last full iteration of the journal yielded
    cut,         \* 0, or the length the journal file was truncated to
    syncRes,     \* "none", or how far sync_to_base got
    ixrest,      \* InMemIndex.by_chunk, policy and stats of the same index
    inflight     \* the overlay mutation in progress: its step and its record

packVars == <<inputs, srcFiles, srcDirs, opts, now, pc, files, dirs, file_plans,
              planned, w, out_f, prev_out>>
readVars == <<fs, extractRes, verifyRes, tamper, forged, listRes, openRes, arx, rd,
              thr>>
sideVars == <<logFile, deltaFile, jh, dh, index, appended, lastOp, iterRes, cut,
              syncRes, ixrest, inflight>>
vars == <<packVars, readVars, sideVars>>
viewVars == <<forged, listRes, openRes, arx, rd, thr>>

\* the threads that read one Opened
Threads == {1, 2}
\* a thread's reader and its position in read: the buffer length k of the
\* call in progress, the bytes still to discard, the ciphertext it holds
NoThread == [r |-> NoReader, pc |-> "idle", k |-> 0, skip |-> 0, ct |-> <<>>]
\* Arc<Mutex<File>>: the thread holding the lock (0: none), the position of
\* the file
NoThreads == [lock |-> 0, pos |-> 0, t |-> [t \in Threads |-> NoThread]]

\* no archive is open and no reader exists
NotForged == [what |-> "none", at |-> "none"]
InitView ==
    /\ forged = NotForged
    /\ listRes = "none"
    /\ openRes = "none"
    /\ arx = NoArx
    /\ rd = NoReader
    /\ thr = NoThreads

FileMode == 33188
DirMode == 16877

\* "/r", "/w/o", "a", "d/b", "a../b"
RootPath == <<ChSlash, 114>>
DestPath == <<ChSlash, 119, ChSlash, 111>>
RelA == <<97>>
RelDB == <<100, ChSlash, 98>>
RelDotsB == <<97, ChDot, ChDot, ChSlash, 98>>
RelPaths == {RelA, RelDB, RelDotsB}
Shapes == {S \in SUBSET RelPaths : Cardinality(S) <= 2}
FileBytes == {0, 1}
Contents == UNION {[1..n -> FileBytes] : n \in 0..MaxFileLen}
ShortContents == UNION {[1..n -> FileBytes] : n \in 0..(MaxFileLen - 1)}
\* a tree of one file takes any content, a tree of two the shorter ones
ContentsFor(S) == IF Cardinality(S) <= 1 THEN Contents ELSE ShortContents

\* the directories a relative file path lies in, below the root
DirsOf(rel) ==
    LET segs == Segments(rel)
    IN  {JoinComps(SubSeq(segs, 1, j)) : j \in 1..(Len(segs) - 1)}
MkFiles(S, c, mt) ==
    [p \in {PathJoin(RootPath, r) : r \in S} |->
        [content |-> c[StripPrefix(p, RootPath)], mode |-> FileMode, mtime |-> mt]]
MkDirs(S, mt) ==
    [p \in {RootPath} \cup {PathJoin(RootPath, d) : d \in UNION {DirsOf(r) : r \in S}}
        |-> [mode |-> DirMode, mtime |-> mt]]

HalfGain == GainScale \div 2
Gains == {0 - GainScale, 0, DefaultMinGain, HalfGain, GainScale}
NoOpts == [some |-> FALSE, deterministic |-> FALSE, min_gain |-> 0,
           aead_key |-> NoKey, key_salt |-> 0]
SomeOpts(D, G, K) ==
    {[some |-> TRUE, deterministic |-> d, min_gain |-> g, aead_key |-> k,
      key_salt |-> 0] : d \in D, g \in G, k \in K}

EmptyFs == [dirs |-> {<<>>}, files |-> <<>>]

\* the reader's options that go with the writer's: same key and salt
SameKey(o) == [some |-> o.some /\ o.aead_key # NoKey, aead_key |-> o.aead_key,
               key_salt |-> o.key_salt]

\* Policy::default(); None is -1
DefaultPolicy ==
    [max_entries |-> -1, max_uncompressed |-> -1, max_delta_bytes |-> -1,
     min_compression_ratio |-> -1, allow_symlinks |-> FALSE]
\* InMemIndex::default() apart from by_path: by_chunk, policy and the
\* counters of stats that apply touches
NoRest ==
    [by_chunk |-> <<>>, policy |-> DefaultPolicy,
     stats |-> [files |-> 0, logical_bytes |-> 0]]

\* no put_file, delete_path or rename is between its steps
NoFlight == [step |-> "none", rec |-> <<>>]

InitSide(Modes) ==
    /\ logFile = [exists |-> FALSE, data |-> <<>>]
    /\ deltaFile = [exists |-> FALSE, data |-> <<>>]
    /\ \E m \in Modes :
          jh = [open |-> FALSE, enc |-> m, flags |-> 0, salt |-> 0, pos |-> 0]
    /\ dh = [open |-> FALSE, enc |-> jh.enc, flags |-> 0, salt |-> 0, pos |-> 0]
    /\ index = <<>>
    /\ appended = <<>>
    /\ lastOp = "init"
    /\ iterRes = [done |-> FALSE, items |-> <<>>]
    /\ cut = 0
    /\ syncRes = "none"
    /\ ixrest = NoRest
    /\ inflight = NoFlight

\* EncMode::Plain
PlainMode == [aead |-> FALSE, key |-> NoKey, salt |-> 0]

InitRun(Sh, Opt, Mt) ==
    /\ InitSide({PlainMode})
    /\ inputs = <<RootPath>>
    /\ \E S \in Sh : \E c \in [S -> ContentsFor(S)] : \E mt \in Mt :
          /\ srcFiles = MkFiles(S, c, mt)
          /\ srcDirs = MkDirs(S, mt)
    /\ opts \in Opt
    /\ now = 1
    /\ pc = "start"
    /\ files = <<>>
    /\ dirs = <<>>
    /\ file_plans = <<>>
    /\ planned = {}
    /\ w = NoLayout
    /\ out_f = <<>>
    /\ prev_out = <<>>
    /\ fs = EmptyFs
    /\ extractRes = "none"
    /\ verifyRes = "none"
    /\ tamper = 0
    /\ InitView

Init == InitRun(Shapes, {NoOpts} \cup SomeOpts({FALSE}, Gains, {NoKey, 1}), {5})

\* Vec::sort on a sequence of paths (insertion of xs[i] into the sorted rest)
RECURSIVE InsertPath(_, _, _)
InsertPath(x, ys, i) ==
    IF i > Len(ys) THEN Append(ys, x)
    ELSE IF PathLess(x, ys[i])
         THEN SubSeq(ys, 1, i - 1) \o <<x>> \o SubSeq(ys, i, Len(ys))
    ELSE InsertPath(x, ys, i + 1)
RECURSIVE SortPathSeq(_, _)
SortPathSeq(xs, i) ==
    IF i > Len(xs) THEN <<>> ELSE InsertPath(xs[i], SortPathSeq(xs, i + 1), 1)

\* the entries WalkDir yields for the roots, root by root (writer.rs 119-129)
RECURSIVE WalkRoots(_, _, _)
WalkRoots(roots, i, paths) ==
    IF i > Len(roots) THEN <<>>
    ELSE SortPaths({p \in paths : HasPrefix(p, roots[i])})
         \o WalkRoots(roots, i + 1, paths)

\* pack: walk the inputs and sort (writer.rs 117-131)
Walk ==
    /\ pc = "start"
    /\ files' = SortPathSeq(WalkRoots(inputs, 1, DOMAIN srcFiles), 1)
    /\ dirs' = SortPathSeq(WalkRoots(inputs, 1, DOMAIN srcDirs), 1)
    /\ file_plans' = [i \in 1..Len(files') |-> NoPlan]
    /\ planned' = {}
    /\ pc' = "walked"
    /\ UNCHANGED <<inputs, srcFiles, srcDirs, opts, now, w, out_f, prev_out>>
    /\ UNCHANGED <<readVars, sideVars>>

\* a collect that keeps the plans in the order the tasks finished
CollectAsFinished(plans, done, i, plan) ==
    [plans EXCEPT ![Cardinality(done) + 1] = plan]

\* par_iter().map(..).collect::<Vec<_>>(): the plan of item i is element i,
\* whichever tasks finished before it
Collect(plans, done, i, plan) == [plans EXCEPT ![i] = plan]

\* pack: one task of the parallel map finishes; collect keeps index order
PlanTask(i) ==
    /\ pc = "walked"
    /\ i \in (1..Len(files)) \ planned
    /\ file_plans' = Collect(file_plans, planned, i,
                             PlanFile(files[i], srcFiles[files[i]],
                                      effective_min_gain(opts)))
    /\ planned' = planned \cup {i}
    /\ UNCHANGED <<inputs, srcFiles, srcDirs, opts, now, pc, files, dirs, w, out_f,
                   prev_out>>
    /\ UNCHANGED <<readVars, sideVars>>

\* pack: manifest planning, layout and the serialized table (writer.rs 194-346)
PlanLayout ==
    /\ pc = "walked"
    /\ planned = 1..Len(files)
    /\ w' = Layout(file_plans, dirs, srcDirs, opts, now, inputs)
    /\ pc' = "laid"
    /\ UNCHANGED <<inputs, srcFiles, srcDirs, opts, now, files, dirs, file_plans,
                   planned, out_f, prev_out>>
    /\ UNCHANGED <<readVars, sideVars>>

\* pack: File::create and the superblock stub (writer.rs 349-358)
CreateOut ==
    /\ pc = "laid"
    /\ out_f' = SuperblockBytes([version |-> VERSION, manifest_len |-> 0,
                                 chunk_table_off |-> 0, chunk_count |-> 0,
                                 data_off |-> 0, flags |-> 0])
    /\ pc' = "created"
    /\ UNCHANGED <<inputs, srcFiles, srcDirs, opts, now, files, dirs, file_plans,
                   planned, w, prev_out>>
    /\ UNCHANGED <<readVars, sideVars>>

\* pack: the manifest region (writer.rs 361-362)
WriteManifest ==
    /\ pc = "created"
    /\ out_f' = WriteAt(out_f, HEADER_LEN, w.manifest_bytes)
    /\ pc' = "manifest"
    /\ UNCHANGED <<inputs, srcFiles, srcDirs, opts, now, files, dirs, file_plans,
                   planned, w, prev_out>>
    /\ UNCHANGED <<readVars, sideVars>>

\* pack: the chunk table region (writer.rs 365-366)
WriteTable ==
    /\ pc = "manifest"
    /\ out_f' = WriteAt(out_f, w.chunk_table_off, w.table_bytes)
    /\ pc' = "data"
    /\ UNCHANGED <<inputs, srcFiles, srcDirs, opts, now, files, dirs, file_plans,
                   planned, w, prev_out>>
    /\ UNCHANGED <<readVars, sideVars>>

\* pack: one round of the data loop (writer.rs 372-422)
WriteChunk ==
    /\ pc = "data"
    /\ w.i < Len(w.chunk_entries)
    /\ \E plan \in {w.plans[w.i + 1]} :
       \E src \in {srcFiles[plan.src].content} :
       \E comp \in {CompressPlain(plan.codec,
                        Bytes(SubSeq(src, plan.off + 1,
                                     Min2(plan.off + plan.len, Len(src)))))} :
           /\ out_f' = WriteAt(out_f, w.chunk_entries[w.i + 1].data_off,
                               ChunkOnDisk(w, opts, w.i, comp))
           /\ w' = [w EXCEPT !.h_data = @ \o comp,
                             !.total_u = SatAdd(@, plan.len),
                             !.total_c = SatAdd(@, Len(comp)),
                             !.i = @ + 1]
    /\ UNCHANGED <<inputs, srcFiles, srcDirs, opts, now, pc, files, dirs, file_plans,
                   planned, prev_out>>
    /\ UNCHANGED <<readVars, sideVars>>

\* pack: the real superblock (writer.rs 425-434)
RewriteSuperblock ==
    /\ pc = "data"
    /\ w.i = Len(w.chunk_entries)
    /\ out_f' = WriteAt(out_f, 0,
                    SuperblockBytes([version |-> VERSION,
                                     manifest_len |-> w.manifest_len,
                                     chunk_table_off |-> w.chunk_table_off,
                                     chunk_count |-> w.chunk_count,
                                     data_off |-> w.data_off, flags |-> w.flags]))
    /\ pc' = "super"
    /\ UNCHANGED <<inputs, srcFiles, srcDirs, opts, now, files, dirs, file_plans,
                   planned, w, prev_out>>
    /\ UNCHANGED <<readVars, sideVars>>

\* pack: the tail summary at EOF, then Ok (writer.rs 437-448)
WriteTail ==
    /\ pc = "super"
    /\ out_f' = out_f \o TailBytes([manifest_blake3 |-> Blake3(w.h_manifest),
                                    chunktab_blake3 |-> Blake3(w.h_chunktab),
                                    data_blake3 |-> Blake3(w.h_data),
                                    total_u |-> w.total_u, total_c |-> w.total_c])
    /\ pc' = "done"
    /\ UNCHANGED <<inputs, srcFiles, srcDirs, opts, now, files, dirs, file_plans,
                   planned, w, prev_out>>
    /\ UNCHANGED <<readVars, sideVars>>

\* the key and salt the readers are called with: the writer's, unless the
\* reader was handed another key or another salt
ReaderOpts ==
    IF forged.what = "key" THEN [SameKey(opts) EXCEPT !.aead_key = @ + 1]
    ELSE IF forged.what = "salt" THEN [SameKey(opts) EXCEPT !.key_salt = @ + 1]
    ELSE SameKey(opts)

\* pack has returned, Ok or with an error
Returned == pc \in {"done", "failed"}

\* extract(out, dest, opts)
Extract ==
    /\ Returned
    /\ extractRes = "none"
    /\ \E r \in {extract(out_f, fs, DestPath, ReaderOpts)} :
           /\ extractRes' = r.status
           /\ fs' = r.fs
    /\ UNCHANGED <<verifyRes, tamper>>
    /\ UNCHANGED viewVars
    /\ UNCHANGED <<packVars, sideVars>>

\* verify(out, opts)
Verify ==
    /\ Returned
    /\ verifyRes = "none"
    /\ verifyRes' = verify(out_f, ReaderOpts)
    /\ UNCHANGED <<fs, extractRes, tamper>>
    /\ UNCHANGED viewVars
    /\ UNCHANGED <<packVars, sideVars>>

\* list(out, opts)
List ==
    /\ Returned
    /\ listRes = "none"
    /\ listRes' = list(out_f, ReaderOpts)
    /\ UNCHANGED <<fs, extractRes, verifyRes, tamper, forged, openRes, arx, rd, thr>>
    /\ UNCHANGED <<packVars, sideVars>>

\* Opened::open(out, key, salt)
Open ==
    /\ Returned
    /\ openRes = "none"
    /\ \E r \in {OpenedOpen(out_f, ReaderOpts)} :
           /\ openRes' = r.status
           /\ arx' = r.arx
    /\ UNCHANGED <<fs, extractRes, verifyRes, tamper, forged, listRes, rd, thr>>
    /\ UNCHANGED <<packVars, sideVars>>

\* what a call on the open archive that returned res leaves in rd
ReaderAfter(res, r) ==
    IF res = "ok" THEN r ELSE [NoReader EXCEPT !.kind = "failed", !.status = res]

\* arx.open_reader(path)
OpenReader(path) ==
    /\ openRes = "ok"
    /\ rd.kind = "none"
    /\ \E x \in {FileReaderNew(arx, path)} : rd' = ReaderAfter(x.res, x.r)
    /\ UNCHANGED <<fs, extractRes, verifyRes, tamper, forged, listRes, openRes, arx, thr>>
    /\ UNCHANGED <<packVars, sideVars>>

\* arx.open_range(path, start, len)
OpenRange(path, start, len) ==
    /\ openRes = "ok"
    /\ rd.kind = "none"
    /\ \E x \in {RangeReaderNew(arx, out_f, path, start, len)} :
           rd' = ReaderAfter(x.res, [x.r EXCEPT !.path = path])
    /\ UNCHANGED <<fs, extractRes, verifyRes, tamper, forged, listRes, openRes, arx, thr>>
    /\ UNCHANGED <<packVars, sideVars>>

\* reader.read(&mut buf) with a buffer of k bytes; a return of 0 ends the
\* caller's loop
ReadBuf(k) ==
    /\ rd.status = "open"
    /\ \E x \in {IF rd.kind = "range" THEN RangeRead(arx, out_f, rd, k)
                  ELSE FileRead(arx, out_f, rd, k)} :
           rd' = [x.r EXCEPT !.out = @ \o x.bytes,
                             !.status = IF x.res # "ok" THEN x.res
                                        ELSE IF x.bytes = <<>> THEN "eof"
                                        ELSE "open"]
    /\ UNCHANGED <<fs, extractRes, verifyRes, tamper, forged, listRes, openRes, arx, thr>>
    /\ UNCHANGED <<packVars, sideVars>>

PackStep ==
    \/ Walk
    \/ \E i \in 1..Len(files) : PlanTask(i)
    \/ PlanLayout
    \/ CreateOut
    \/ WriteManifest
    \/ WriteTable
    \/ WriteChunk
    \/ RewriteSuperblock
    \/ WriteTail

Next ==
    \/ PackStep
    \/ Extract
    \/ Verify

Spec == Init /\ [][Next]_vars

\* ------------------------------------------------------------------------
\* Properties of pack, extract and verify
\* ------------------------------------------------------------------------
\* where a source file's relative path lands under the destination
DestLoc(p) == OsComps(DestPath) \o Segments(StripPrefix(p, RootPath))
Sealed == opts.some /\ opts.aead_key # NoKey
Packed == pc = "done"
Planned == pc \notin {"start", "walked"}

\* C1: round trip. Whenever extract has returned on the archive pack wrote
\* for the tree, it returned Ok and every source file is found at the same
\* relative path below the destination with the same bytes.
C1_RoundTrip ==
    extractRes # "none" =>
        /\ extractRes = "ok"
        /\ \A p \in DOMAIN srcFiles :
              /\ DestLoc(p) \in DOMAIN fs.files
              /\ fs.files[DestLoc(p)] = Bytes(srcFiles[p].content)

\* the trees of C1 on which the round trip does hold: no directory name
\* ends in ".."
C1_RoundTripPlainNames ==
    (extractRes # "none" /\ \A p \in DOMAIN srcFiles : ~unsafe_path(StripPrefix(p, RootPath)))
    => C1_RoundTrip

\* C2: verify accepts every written archive. Whenever verify has returned on
\* the archive pack wrote, with the writer's key and salt, it returned Ok:
\* the three hashes and the two totals it recomputes equal the tail's.
C2_VerifyAccepts == verifyRes # "none" => verifyRes = "ok"

\* the case of C2: a sealed archive in which a chunk is referenced twice
C2_Witness ==
    /\ verifyRes = "ok"
    /\ Sealed
    /\ w.chunk_count > 0
    /\ \E i \in 1..Len(w.manifest.files) :
          Len(w.manifest.files[i].chunk_refs) > w.chunk_count

\* the bytes of the k-th chunk planned for file number i
PlannedChunkBytes(i, k) ==
    LET nc == file_plans[i].chunks[k]
    IN  SubSeq(srcFiles[files[i]].content, nc.file_off + 1, nc.file_off + nc.u_size)
\* the bytes the j-th chunk-table entry (1-based) stands for
EntryChunkBytes(j) ==
    LET plan == w.plans[j]
    IN  SubSeq(srcFiles[plan.src].content, plan.off + 1, plan.off + plan.len)
AllChunkBytes ==
    {PlannedChunkBytes(i, k) : <<i, k>> \in
        {ik \in (1..Len(file_plans)) \X (1..MaxFileLen + 1) :
            ik[2] <= Len(file_plans[ik[1]].chunks)}}

\* C4: deduplication. Once the table is planned, no two entries stand for
\* the same chunk content, there are exactly as many entries as distinct
\* chunk contents in the tree, and every chunk of every file is a ChunkRef
\* whose id is the entry of that content.
C4_Dedup ==
    Planned =>
        /\ \A i, j \in 1..Len(w.chunk_entries) :
              i # j => Blake3(Bytes(EntryChunkBytes(i))) # Blake3(Bytes(EntryChunkBytes(j)))
        /\ Len(w.chunk_entries) = Cardinality(AllChunkBytes)
        /\ Len(w.plans) = Len(w.chunk_entries)
        /\ \A i \in 1..Len(file_plans) :
              /\ Len(w.manifest.files[i].chunk_refs) = Len(file_plans[i].chunks)
              /\ \A k \in 1..Len(file_plans[i].chunks) :
                    LET ref == w.manifest.files[i].chunk_refs[k]
                    IN  /\ ref.id < Len(w.chunk_entries)
                        /\ EntryChunkBytes(ref.id + 1) = PlannedChunkBytes(i, k)

\* the case of C4: an archive in which two files share a chunk and one file
\* repeats a chunk
C4_Witness ==
    /\ Packed
    /\ \E i, j \in 1..Len(w.manifest.files) :
          /\ i # j
          /\ \E k \in 1..Len(w.manifest.files[i].chunk_refs) :
             \E l \in 1..Len(w.manifest.files[j].chunk_refs) :
                w.manifest.files[i].chunk_refs[k].id = w.manifest.files[j].chunk_refs[l].id
          /\ \E k, l \in 1..Len(w.manifest.files[i].chunk_refs) :
                /\ k # l
                /\ w.manifest.files[i].chunk_refs[k].id = w.manifest.files[i].chunk_refs[l].id

\* the effective min_gain as C6 words it
ClaimedGain == IF ~opts.some \/ opts.min_gain <= 0 THEN DefaultMinGain ELSE opts.min_gain
PolicyHolds(codec, u, c) ==
    \/ codec = CodecZstd /\ (u - c) * GainScale >= u * ClaimedGain
    \/ codec = CodecStore /\ c = u

\* C6: codec policy. Every planned chunk and every chunk-table entry, with
\* u its uncompressed size and c its stored size less the AEAD tag, is
\* either ZSTD with u - c >= u*g or STORE with c = u, and an entry is ZSTD
\* only if ZSTD shrinks its content by the fraction g.
C6_CodecPolicy ==
    /\ \A i \in planned : \A k \in 1..Len(file_plans[i].chunks) :
          PolicyHolds(file_plans[i].chunks[k].codec, file_plans[i].chunks[k].u_size,
                      file_plans[i].chunks[k].c_size)
    /\ Planned =>
          \A j \in 1..Len(w.chunk_entries) :
             LET ce == w.chunk_entries[j]
                 c == IF Sealed THEN ce.c_size - TAG_LEN ELSE ce.c_size
             IN  /\ PolicyHolds(ce.codec, ce.u_size, c)
                 /\ ce.codec = CodecZstd =>
                       (ce.u_size - Len(ZstdCompress(Bytes(EntryChunkBytes(j))))) * GainScale
                           >= ce.u_size * ClaimedGain

\* the case of C6: a sealed archive packed with a negative min_gain that
\* holds a ZSTD entry and a STORE entry
C6_Witness ==
    /\ Packed
    /\ Sealed
    /\ opts.min_gain < 0
    /\ \E j \in 1..Len(w.chunk_entries) : w.chunk_entries[j].codec = CodecZstd

\* ------------------------------------------------------------------------
\* A byte of the written archive is changed before verify reads it.
\* ------------------------------------------------------------------------
\* the values a changed byte takes: the low bit or the high bit flipped; a
\* ciphertext or tag byte becomes some other byte
FlipOf(c, bit) ==
    IF Len(c) = 1 THEN <<(IF (c[1] \div bit) % 2 = 1 THEN c[1] - bit ELSE c[1] + bit)>>
    ELSE <<bit>>
FlipBits == {1, 128}

\* one byte at offset off of the manifest, chunk-table or data region changes
Tamper(off, bit) ==
    /\ pc = "done"
    /\ tamper = 0
    /\ forged = NotForged
    /\ verifyRes = "none"
    /\ extractRes = "none"
    /\ listRes = "none"
    /\ openRes = "none"
    /\ off >= HEADER_LEN
    /\ off < Len(out_f) - TAIL_LEN
    /\ out_f' = [out_f EXCEPT ![off + 1] = FlipOf(@, bit)]
    /\ tamper' = off + 1
    /\ UNCHANGED <<inputs, srcFiles, srcDirs, opts, now, pc, files, dirs, file_plans,
                   planned, w, prev_out>>
    /\ UNCHANGED <<fs, extractRes, verifyRes>>
    /\ UNCHANGED viewVars
    /\ UNCHANGED sideVars

InitTamper ==
    InitRun({{RelA}}, {NoOpts} \cup SomeOpts({FALSE}, {0}, {1}), {5})

NextTamper ==
    \/ PackStep
    \/ \E off \in 0..(Len(out_f) - 1) : \E bit \in FlipBits : Tamper(off, bit)
    \/ Verify

SpecTamper == InitTamper /\ [][NextTamper]_vars

\* the region of the archive the changed byte lies in
TamperRegion ==
    IF tamper = 0 THEN "none"
    ELSE IF tamper - 1 < w.chunk_table_off THEN "manifest"
    ELSE IF tamper - 1 < w.data_off THEN "chunktab"
    ELSE "data"

\* C3: tamper detection. When one byte of the manifest, chunk-table or data
\* region of a written archive has been changed, verify does not return Ok.
C3_TamperDetected == (tamper # 0 /\ verifyRes # "none") => verifyRes # "ok"

\* the case of C3: a byte of the data region of a plain archive was changed
\* and verify returned the tail mismatch
C3_Witness ==
    /\ TamperRegion = "data"
    /\ ~Sealed
    /\ verifyRes = "err"

\* verify ends abnormally (open_whole's expect) on a sealed archive
C3_SealedPanics ==
    (tamper # 0 /\ verifyRes # "none" /\ Sealed) => verifyRes = "panic"

\* ------------------------------------------------------------------------
\* pack is run a second time on the same tree, at another time and with
\* other mtimes.
\* ------------------------------------------------------------------------
Mtimes == {5, 6}
Clocks == {1, 2}

Repack(mt, clock) ==
    /\ pc = "done"
    /\ prev_out = <<>>
    /\ extractRes = "none"
    /\ verifyRes = "none"
    /\ prev_out' = out_f
    /\ srcFiles' = [p \in DOMAIN srcFiles |-> [srcFiles[p] EXCEPT !.mtime = mt]]
    /\ srcDirs' = [p \in DOMAIN srcDirs |-> [srcDirs[p] EXCEPT !.mtime = mt]]
    /\ now' = clock
    /\ pc' = "start"
    /\ files' = <<>>
    /\ dirs' = <<>>
    /\ file_plans' = <<>>
    /\ planned' = {}
    /\ w' = NoLayout
    /\ out_f' = <<>>
    /\ UNCHANGED <<inputs, opts>>
    /\ UNCHANGED <<readVars, sideVars>>

InitDet ==
    InitRun({{RelA}, {RelA, RelDB}}, SomeOpts({FALSE, TRUE}, {0}, {NoKey, 1}), {5})

NextDet ==
    \/ PackStep
    \/ \E mt \in Mtimes : \E clock \in Clocks : Repack(mt, clock)

SpecDet == InitDet /\ [][NextDet]_vars

\* C5: determinism. With deterministic set, a second run of pack on a tree
\* of the same paths, modes and contents, under the same key and salt,
\* writes the bytes the first run wrote, whatever the mtimes, the clock and
\* the order of the planning tasks.
C5_Deterministic ==
    (Packed /\ prev_out # <<>> /\ opts.deterministic) => out_f = prev_out

\* the case of C5: a sealed deterministic archive of two files, packed again
\* later with other mtimes
C5_Witness ==
    /\ Packed
    /\ prev_out # <<>>
    /\ opts.deterministic
    /\ Sealed
    /\ now = 2
    /\ Len(files) = 2
    /\ \A p \in DOMAIN srcFiles : srcFiles[p].mtime = 6
    /\ out_f = prev_out

\* without deterministic the two runs differ when the clock moved
C5_ClockShows ==
    (Packed /\ prev_out # <<>> /\ ~opts.deterministic /\ now # 1) => out_f # prev_out

\* ------------------------------------------------------------------------
\* extract on archives that were not written by pack: a well-formed
\* container whose manifest names one path of the sender's choosing.
\* ------------------------------------------------------------------------
\* "/e", "../e", "a/../e", "..", "a/..", "a", "a..", "..a"
CraftPaths ==
    {<<ChSlash, 101>>, <<ChDot, ChDot, ChSlash, 101>>,
     <<97, ChSlash, ChDot, ChDot, ChSlash, 101>>, <<ChDot, ChDot>>,
     <<97, ChSlash, ChDot, ChDot>>, <<97>>, <<97, ChDot, ChDot>>,
     <<ChDot, ChDot, 97>>}

CraftManifest(kind, path) ==
    [files |-> IF kind = "file"
               THEN <<[path |-> path, mode |-> FileMode, mtime |-> 0, u_size |-> 0,
                       chunk_refs |-> <<>>]>>
               ELSE <<>>,
     dirs |-> IF kind = "dir"
              THEN <<[path |-> path, mode |-> DirMode, mtime |-> 0]>>
              ELSE <<>>,
     meta |-> [created |-> 0, tool |-> ToolName]]

\* the bytes of a container without chunks that holds manifest m, sealed
\* under o's key when o has one
CraftArchive(m, o) ==
    LET enc == o.some /\ o.aead_key # NoKey
        man_plain == EncManifest(m)
        man_bytes == IF enc
                     THEN seal_whole(o.aead_key, derive_nonce(o.key_salt, RegionManifest, 0),
                                     AdLabel.manifest, man_plain)
                     ELSE man_plain
        tab_bytes == IF enc
                     THEN seal_whole(o.aead_key, derive_nonce(o.key_salt, RegionChunkTable, 0),
                                     AdLabel.chunktab, <<>>)
                     ELSE <<>>
        off == HEADER_LEN + Len(man_bytes)
    IN  SuperblockBytes([version |-> VERSION, manifest_len |-> Len(man_bytes),
                         chunk_table_off |-> off, chunk_count |-> 0,
                         data_off |-> off + Len(tab_bytes),
                         flags |-> IF enc THEN FLAG_ENCRYPTED ELSE 0])
        \o man_bytes \o tab_bytes
        \o TailBytes([manifest_blake3 |-> Blake3(man_plain),
                      chunktab_blake3 |-> Blake3(<<>>), data_blake3 |-> Blake3(<<>>),
                      total_u |-> 0, total_c |-> 0])

\* the destination before extract: absent, or present with a directory "a"
DestFs ==
    {EmptyFs,
     [dirs |-> {<<>>, <<(<<119>>)>>, <<(<<119>>), <<111>>>>,
                <<(<<119>>), <<111>>, <<97>>>>},
      files |-> <<>>]}

InitCrafted ==
    /\ InitSide({PlainMode})
    /\ inputs = <<RootPath>>
    /\ srcFiles = <<>>
    /\ srcDirs = <<>>
    /\ opts \in {NoOpts} \cup SomeOpts({FALSE}, {0}, {1})
    /\ now = 1
    /\ pc = "done"
    /\ files = <<>>
    /\ dirs = <<>>
    /\ file_plans = <<>>
    /\ planned = {}
    /\ w = NoLayout
    /\ \E kind \in {"file", "dir"} : \E path \in CraftPaths :
          out_f = CraftArchive(CraftManifest(kind, path), opts)
    /\ prev_out = <<>>
    /\ fs \in DestFs
    /\ extractRes = "none"
    /\ verifyRes = "none"
    /\ tamper = 0
    /\ InitView

NextCrafted ==
    \/ Extract
    \/ Verify

SpecCrafted == InitCrafted /\ [][NextCrafted]_vars

\* the manifest a reader with the matching key decodes from out_f
ReadManifest ==
    LET sb == SuperblockRead(out_f)
        raw == ReadAt(out_f, HEADER_LEN, sb.manifest_len)
    IN  DecManifest(IF sb.flags % 2 = 1 THEN aead_plain(raw) ELSE raw).v
ManifestPaths ==
    {ReadManifest.files[i].path : i \in 1..Len(ReadManifest.files)}
    \cup {ReadManifest.dirs[i].path : i \in 1..Len(ReadManifest.dirs)}
\* absolute, or some segment is ".."
HasDotDotSegment(path) ==
    is_absolute(path) \/ \E i \in 1..Len(Segments(path)) : Segments(path)[i] = DotDot
IsPrefixOf(a, b) == Len(a) <= Len(b) /\ SubSeq(b, 1, Len(a)) = a
\* a location that is neither below the destination nor on the way to it
Outside(loc) ==
    /\ ~IsPrefixOf(OsComps(DestPath), loc)
    /\ ~IsPrefixOf(loc, OsComps(DestPath))
NothingOutside == \A loc \in fs.dirs \cup DOMAIN fs.files : ~Outside(loc)

\* C7: extractor path safety. When the manifest of the archive holds a path
\* that is absolute or has a ".." segment, extract returns an error and has
\* created nothing outside the destination root.
C7_PathSafety ==
    (extractRes # "none" /\ \E path \in ManifestPaths : HasDotDotSegment(path))
    => (extractRes = "err" /\ NothingOutside)

\* what extract does guarantee on these archives: nothing is created outside
\* the destination, and a path with ".." before a separator is refused
C7_NothingOutside == NothingOutside
C7_InnerDotDotRefused ==
    (extractRes # "none" /\ \E path \in ManifestPaths : unsafe_path(path))
    => extractRes = "err"

\* ------------------------------------------------------------------------
\* The journal (container/journal.rs): header, varint-framed records
\* ------------------------------------------------------------------------
LOG_MAGIC == <<65, 82, 88, 76, 79, 71, 0, 0>>
LOG_VERSION == 1
FLAG_AEAD == 1
LOG_HEADER_LEN == 42
\* "arxlog", "arxdelta"
LabelLog == <<97, 114, 120, 108, 111, 103>>
LabelDelta == <<97, 114, 120, 100, 101, 108, 116, 97>>

\* the names serde gives the fields and variants of LogRecord and ChunkRef
JKey ==
    [Put |-> <<80, 117, 116>>, Delete |-> <<68, 101, 108, 101, 116, 101>>,
     Rename |-> <<82, 101, 110, 97, 109, 101>>,
     path |-> <<112, 97, 116, 104>>, mode |-> <<109, 111, 100, 101>>,
     mtime |-> <<109, 116, 105, 109, 101>>, size |-> <<115, 105, 122, 101>>,
     chunks |-> <<99, 104, 117, 110, 107, 115>>, loc |-> <<108, 111, 99>>,
     off |-> <<111, 102, 102>>, len |-> <<108, 101, 110>>,
     codec |-> <<99, 111, 100, 101, 99>>,
     blake3 |-> <<98, 108, 97, 107, 101, 51>>,
     from |-> <<102, 114, 111, 109>>, to |-> <<116, 111>>,
     Base |-> <<66, 97, 115, 101>>, Delta |-> <<68, 101, 108, 116, 97>>,
     Store |-> <<83, 116, 111, 114, 101>>, Zstd |-> <<90, 115, 116, 100>>]

\* EncMode::Aead
AeadMode(key, salt) == [aead |-> TRUE, key |-> key, salt |-> salt]

put_uvarint_byte(x) == <<(<<x % 256>>)>>

RECURSIVE put_uvarint(_)
put_uvarint(x) ==
    IF x >= 128 THEN <<(<<(x % 128) + 128>>)>> \o put_uvarint(x \div 128)
    ELSE <<(<<x>>)>>

RECURSIVE uvarint_len(_)
uvarint_len(x) == IF x >= 128 THEN 1 + uvarint_len(x \div 128) ELSE 1

\* get_uvarint reading file f from offset pos: k bytes read so far, x the
\* value so far, m = 2^s (a value past 31 bits reads as Huge)
RECURSIVE GetUvarint(_, _, _, _, _)
GetUvarint(f, pos, k, x, m) ==
    IF k = 10 THEN [res |-> "err", v |-> 0, pos |-> pos]
    ELSE IF pos >= Len(f) THEN [res |-> "none", v |-> 0, pos |-> pos]
    ELSE LET byte == CellVal(f[pos + 1])
             low == byte % 128
             big == low # 0 /\ (k >= 5 \/ (k = 4 /\ low >= 8) \/ x = Huge)
             x2 == IF big THEN Huge ELSE IF low = 0 THEN x ELSE x + low * m
         IN  IF byte < 128 THEN [res |-> "some", v |-> x2, pos |-> pos + 1]
             ELSE GetUvarint(f, pos + 1, k + 1, x2, IF k >= 4 THEN m ELSE m * 128)
get_uvarint(f, pos) == GetUvarint(f, pos, 0, 0, 1)

\* the nonce input of a sealed journal record or delta frame
sidecar_nonce(label, salt, payload_off, cipher_len) ==
    label \o <<salt, payload_off, cipher_len>>

\* serde_cbor::to_writer of a LogRecord.  Each digest byte of blake3 is
\* written as a two-byte CBOR integer (0x18, b).
EncJChunk(c) ==
    CborMap(5) \o CborText(JKey.loc) \o CborText(c.loc)
    \o CborText(JKey.off) \o CborUint(c.off)
    \o CborText(JKey.len) \o CborUint(c.len)
    \o CborText(JKey.codec) \o CborText(c.codec)
    \o CborText(JKey.blake3) \o CborArr(32)
EncJChunkCells(c) ==
    Bytes(EncJChunk(c)) \o Concat([i \in 1..32 |-> <<(<<24>>), c.blake3[i]>>])
EncRecord(r) ==
    IF r.kind = JKey.Put
    THEN Bytes(CborMap(1) \o CborText(JKey.Put) \o CborMap(5)
               \o CborText(JKey.path) \o CborText(r.path)
               \o CborText(JKey.mode) \o CborUint(r.mode)
               \o CborText(JKey.mtime) \o CborUint(r.mtime)
               \o CborText(JKey.size) \o CborUint(r.size)
               \o CborText(JKey.chunks) \o CborArr(Len(r.chunks)))
         \o Concat([i \in 1..Len(r.chunks) |-> EncJChunkCells(r.chunks[i])])
    ELSE IF r.kind = JKey.Delete
    THEN Bytes(CborMap(1) \o CborText(JKey.Delete) \o CborMap(1)
               \o CborText(JKey.path) \o CborText(r.path))
    ELSE Bytes(CborMap(1) \o CborText(JKey.Rename) \o CborMap(2)
               \o CborText(JKey.from) \o CborText(r.path)
               \o CborText(JKey.to) \o CborText(r.to))

\* the LogRecord values: Put, Delete{path}, Rename{from: path, to}
PutRec(path, mode, mtime, size, chunks) ==
    [kind |-> JKey.Put, path |-> path, to |-> <<>>, mode |-> mode, mtime |-> mtime,
     size |-> size, chunks |-> chunks]
DeleteRec(path) ==
    [kind |-> JKey.Delete, path |-> path, to |-> <<>>, mode |-> 0, mtime |-> 0,
     size |-> 0, chunks |-> <<>>]
RenameRec(from, to) ==
    [kind |-> JKey.Rename, path |-> from, to |-> to, mode |-> 0, mtime |-> 0,
     size |-> 0, chunks |-> <<>>]

\* the order and names of the fields of journal::ChunkRef and of the
\* variants of LogRecord
JChunkSchema ==
    <<ItMap(5), ItKey(JKey.loc), ItEnum({JKey.Base, JKey.Delta}),
      ItKey(JKey.off), It("uint"), ItKey(JKey.len), It("uint"),
      ItKey(JKey.codec), ItEnum({JKey.Store, JKey.Zstd}),
      ItKey(JKey.blake3), It("digest")>>
PutSchema ==
    <<ItMap(5), ItKey(JKey.path), It("text"), ItKey(JKey.mode), It("uint"),
      ItKey(JKey.mtime), It("uint"), ItKey(JKey.size), It("uint"),
      ItKey(JKey.chunks), ItList(JChunkSchema)>>
DeleteSchema == <<ItMap(1), ItKey(JKey.path), It("text")>>
RenameSchema == <<ItMap(2), ItKey(JKey.from), It("text"), ItKey(JKey.to), It("text")>>

\* serde_cbor::from_slice::<LogRecord>: the whole slice must be consumed
DecRecord(s) ==
    LET ChunkOf(x) == [loc |-> x[1], off |-> x[2], len |-> x[3], codec |-> x[4],
                       blake3 |-> x[5]]
        RecOf(tag, x) ==
            IF tag = JKey.Put
            THEN PutRec(x[1], x[2], x[3], x[4],
                        [j \in 1..Len(x[5]) |-> ChunkOf(x[5][j])])
            ELSE IF tag = JKey.Delete THEN DeleteRec(x[1])
            ELSE RenameRec(x[1], x[2])
        Done(tag, r) ==
            IF r.ok /\ r.p = Len(s) + 1 THEN [ok |-> TRUE, v |-> RecOf(tag, r.v)]
            ELSE [ok |-> FALSE]
        Of(t) ==
            IF ~t.ok THEN [ok |-> FALSE]
            ELSE IF t.v[1] = JKey.Put THEN Done(t.v[1], PItems(s, t.p, PutSchema, 1))
            ELSE IF t.v[1] = JKey.Delete
                 THEN Done(t.v[1], PItems(s, t.p, DeleteSchema, 1))
            ELSE IF t.v[1] = JKey.Rename
                 THEN Done(t.v[1], PItems(s, t.p, RenameSchema, 1))
            ELSE [ok |-> FALSE]
    IN  Of(PItems(s, 1, <<ItMap(1), It("text")>>, 1))

\* a sidecar file: [exists, data]; a handle: the mode and the file position
ClosedHandle == [open |-> FALSE, enc |-> PlainMode, flags |-> 0, salt |-> 0, pos |-> 0]

\* the 42 header bytes Journal::open writes for mode enc
LogHeader(enc) ==
    Bytes(LOG_MAGIC) \o <<(<<LOG_VERSION>>),
                          (<<IF enc.aead THEN FLAG_AEAD ELSE 0>>)>>
    \o [i \in 1..32 |-> <<IF enc.aead THEN enc.salt ELSE 0>>]

\* the salt read back from the header (the 32 bytes repeat one value)
HeaderSalt(data) == CellVal(data[11])

\* the file's flags never make Journal::open refuse
SealedWithoutKeyNever(flags, enc) == FALSE

\* the sanity test of Journal::open: the file says AEAD, the caller passed
\* EncMode::Plain (journal.rs 222-232)
SealedWithoutKey(flags, enc) == flags % 2 = 1 /\ ~enc.aead

\* Journal::open(path, enc) on file file: [ok, err, file, h]; err is the
\* kind of the io::Error returned
JournalOpen(file, enc) ==
    LET d == file.data
        fresh == [exists |-> TRUE, data |-> LogHeader(enc)]
        magic_ok == [i \in 1..8 |-> CellVal(d[i])] = LOG_MAGIC
        short == [ok |-> FALSE, err |-> "UnexpectedEof", file |-> file,
                  h |-> ClosedHandle]
        opened(f, flags, salt) ==
            IF SealedWithoutKey(flags, enc)
            THEN [ok |-> FALSE, err |-> "PermissionDenied", file |-> f,
                  h |-> ClosedHandle]
            ELSE [ok |-> TRUE, err |-> "none", file |-> f,
                  h |-> [open |-> TRUE, enc |-> enc, flags |-> flags, salt |-> salt,
                         pos |-> Len(f.data)]]
        mode_flags == IF enc.aead THEN FLAG_AEAD ELSE 0
        mode_salt == IF enc.aead THEN enc.salt ELSE 0
    IN  IF ~file.exists THEN opened(fresh, mode_flags, mode_salt)
        ELSE IF Len(d) < 8 THEN short
        ELSE IF ~magic_ok THEN opened(fresh, mode_flags, mode_salt)
        ELSE IF Len(d) < 9 THEN short
        ELSE IF Len(d) = 9 THEN opened(file, 0, 0)
        ELSE IF Len(d) < LOG_HEADER_LEN THEN short
        ELSE opened(file, CellVal(d[10]), HeaderSalt(d))

\* Journal::append(rec) at the handle's position: the file and the handle
JournalAppend(file, h, rec) ==
    LET Write(bytes) ==
            [file |-> [file EXCEPT !.data = WriteAt(@, h.pos, bytes)],
             h |-> [h EXCEPT !.pos = @ + Len(bytes)]]
        Framed(body) == Write(put_uvarint(Len(body)) \o body)
        SealAt(plain, payload_off, cipher_len) ==
            seal_whole(h.enc.key,
                       sidecar_nonce(LabelLog, h.salt, payload_off, cipher_len),
                       <<>>, plain)
        Of(plain) ==
            IF h.enc.aead
            THEN Framed(SealAt(plain, h.pos + uvarint_len(Len(plain) + 16),
                               Len(plain) + 16))
            ELSE Framed(plain)
    IN  Of(EncRecord(rec))

\* read_next_record at offset pos: "some" with rec, "none", or "err"
read_next_record(f, pos, enc, salt) ==
    LET Decoded(rec, end) ==
            IF ~rec.ok THEN [res |-> "err", pos |-> end]
            ELSE [res |-> "some", rec |-> rec.v, pos |-> end]
        Payload(buf, payload_off, end) ==
            IF enc.aead
               /\ ~aead_ok(enc.key,
                           sidecar_nonce(LabelLog, salt, payload_off, Len(buf)),
                           <<>>, buf)
            THEN [res |-> "err", pos |-> end]
            ELSE Decoded(DecRecord(IF enc.aead THEN aead_plain(buf) ELSE buf), end)
        Of(g) ==
            IF g.res = "none" THEN [res |-> "none", pos |-> g.pos]
            ELSE IF g.res = "err" THEN [res |-> "err", pos |-> g.pos]
            ELSE IF ~CanRead(f, g.pos, g.v) THEN [res |-> "none", pos |-> Len(f)]
            ELSE Payload(ReadAt(f, g.pos, g.v), pos + uvarint_len(g.v), g.pos + g.v)
    IN  Of(get_uvarint(f, pos))

\* what a loop over Journal::iter() sees up to the first None: the items
\* (a record, or an error) and the position the file is left at
RECURSIVE IterFrom(_, _, _, _)
IterFrom(f, pos, enc, salt) ==
    LET Item(r) == IF r.res = "some" THEN [ok |-> TRUE, rec |-> r.rec]
                   ELSE [ok |-> FALSE, rec |-> DeleteRec(<<>>)]
        Cons(x, rest) == [items |-> <<x>> \o rest.items, pos |-> rest.pos]
        Of(r) == IF r.res = "none" THEN [items |-> <<>>, pos |-> r.pos]
                 ELSE Cons(Item(r), IterFrom(f, r.pos, enc, salt))
    IN  Of(read_next_record(f, pos, enc, salt))
JournalIterAll(file, h) == IterFrom(file.data, LOG_HEADER_LEN, h.enc, h.salt)

\* the width of the u64 counters of Stats, scaled down from 2^64
U64Wrap == 16
\* LogRecord::SetPolicy and LogRecord::Note
KindSetPolicy == <<83, 101, 116, 80, 111, 108, 105, 99, 121>>
KindNote == <<78, 111, 116, 101>>
SetPolicyRec(p) == [kind |-> KindSetPolicy, policy |-> p]
NoteRec(text) == [kind |-> KindNote, text |-> text]

\* the loop `for c in chunks { by_chunk.insert(c.blake3, ..) }`
RECURSIVE InsertChunks(_, _, _)
InsertChunks(by_chunk, chunks, i) ==
    IF i > Len(chunks) THEN by_chunk
    ELSE InsertChunks([h \in (DOMAIN by_chunk) \cup {chunks[i].blake3} |->
                          IF h = chunks[i].blake3
                          THEN [loc |-> chunks[i].loc, off |-> chunks[i].off,
                                len |-> chunks[i].len, codec |-> chunks[i].codec]
                          ELSE by_chunk[h]],
                      chunks, i + 1)

\* a Put whose `+=` on a counter of stats overflows: a panic where overflow
\* checks are compiled in, a wrapped counter where they are not
ApplyOverflows(rest, rec) ==
    /\ rec.kind = JKey.Put
    /\ \/ rest.stats.files + 1 >= U64Wrap
       \/ rest.stats.logical_bytes + rec.size >= U64Wrap

\* InMemIndex::apply on by_chunk, policy and stats, the counters wrapping
RestApply(rest, rec) ==
    IF rec.kind = JKey.Put
    THEN [by_chunk |-> InsertChunks(rest.by_chunk, rec.chunks, 1),
          policy |-> rest.policy,
          stats |-> [files |-> (rest.stats.files + 1) % U64Wrap,
                     logical_bytes |-> (rest.stats.logical_bytes + rec.size) % U64Wrap]]
    ELSE IF rec.kind = KindSetPolicy THEN [rest EXCEPT !.policy = rec.policy]
    ELSE rest

\* InMemIndex::apply on by_path
IndexApply(by_path, rec) ==
    IF rec.kind = JKey.Put
    THEN [q \in (DOMAIN by_path) \cup {rec.path} |->
             IF q = rec.path
             THEN [mode |-> rec.mode, mtime |-> rec.mtime, size |-> rec.size,
                   chunks |-> rec.chunks]
             ELSE by_path[q]]
    ELSE IF rec.kind = JKey.Delete
    THEN [q \in (DOMAIN by_path) \ {rec.path} |-> by_path[q]]
    ELSE IF rec.kind = JKey.Rename /\ rec.path \in DOMAIN by_path
    THEN [q \in ((DOMAIN by_path) \ {rec.path}) \cup {rec.to} |->
             IF q = rec.to THEN by_path[rec.path] ELSE by_path[q]]
    ELSE by_path

RECURSIVE FoldApply(_, _, _)
FoldApply(by_path, recs, i) ==
    IF i > Len(recs) THEN by_path
    ELSE FoldApply(IndexApply(by_path, recs[i]), recs, i + 1)

ReplayNone(by_path, items) == [ok |-> TRUE, by_path |-> by_path]

\* the replay loop of open_with_crypto (crud/mod.rs 43-49): rec? returns
\* the first error
RECURSIVE Replay(_, _)
Replay(by_path, items) ==
    IF items = <<>> THEN [ok |-> TRUE, by_path |-> by_path]
    ELSE IF ~items[1].ok THEN [ok |-> FALSE, by_path |-> by_path]
    ELSE Replay(IndexApply(by_path, items[1].rec), Tail(items))

\* the same loop on by_chunk, policy and stats
RECURSIVE ReplayRest(_, _)
ReplayRest(rest, items) ==
    IF items = <<>> \/ ~items[1].ok THEN rest
    ELSE ReplayRest(RestApply(rest, items[1].rec), Tail(items))

\* DeltaStore::open
DeltaOpen(file, enc) ==
    [file |-> [exists |-> TRUE, data |-> file.data],
     h |-> [open |-> TRUE, enc |-> enc, flags |-> 0,
            salt |-> IF enc.aead THEN enc.salt ELSE 0, pos |-> Len(file.data)]]

\* an append_frame that returns (off, len) and writes nothing
append_frame_lost(file, h, frame_plain) ==
    [file |-> file, h |-> h, off |-> h.pos + 1, len |-> Len(frame_plain)]

\* DeltaStore::append_frame: the file, the handle and the returned (off, len)
append_frame(file, h, frame_plain) ==
    LET Write(lenv, body, payload_off) ==
            [file |-> [file EXCEPT !.data = WriteAt(@, h.pos, lenv \o body)],
             h |-> [h EXCEPT !.pos = payload_off + Len(body)],
             off |-> payload_off, len |-> Len(body)]
        Body(lenv, payload_off, cipher_len) ==
            IF h.enc.aead
            THEN Write(lenv,
                       seal_whole(h.enc.key,
                                  sidecar_nonce(LabelDelta, h.salt, payload_off,
                                                cipher_len),
                                  <<>>, frame_plain),
                       payload_off)
            ELSE Write(lenv, frame_plain, payload_off)
        Of(lenv) == Body(lenv, h.pos + Len(lenv), Len(frame_plain) + 16)
    IN  Of(put_uvarint(IF h.enc.aead THEN Len(frame_plain) + 16
                       ELSE Len(frame_plain)))

\* DeltaStore::read_frame(off, len): the plaintext, and where the shared
\* file position is left
read_frame(file, h, off, len) ==
    LET Of(buf) ==
            IF h.enc.aead
               /\ ~aead_ok(h.enc.key, sidecar_nonce(LabelDelta, h.salt, off, len),
                           <<>>, buf)
            THEN [ok |-> FALSE, plain |-> <<>>, pos |-> off + len]
            ELSE [ok |-> TRUE, plain |-> IF h.enc.aead THEN aead_plain(buf) ELSE buf,
                  pos |-> off + len]
    IN  IF ~CanRead(file.data, off, len)
        THEN [ok |-> FALSE, plain |-> <<>>, pos |-> Max2(off, Len(file.data))]
        ELSE Of(ReadAt(file.data, off, len))

\* ------------------------------------------------------------------------
\* The journal on its own: open, append, close, a truncation of the closed
\* file inside its last record, reopen and a full iteration.
\* ------------------------------------------------------------------------
MaxAppends == 2

SideModes == {PlainMode, AeadMode(1, 7)}
\* "a", "b"
JPaths == {<<97>>, <<98>>}
JRecords ==
    {DeleteRec(p) : p \in JPaths}
    \cup {RenameRec(<<97>>, <<98>>)}
    \cup {PutRec(<<97>>, FileMode, 5, 1,
                 <<[loc |-> JKey.Delta, off |-> 1, len |-> 1, codec |-> JKey.Store,
                    blake3 |-> Blake3(Bytes(<<1>>))]>>)}

\* the bytes one appended record takes in the file
FramedLen(rec, enc) ==
    LET n == Len(EncRecord(rec)) + (IF enc.aead THEN 16 ELSE 0)
    IN  uvarint_len(n) + n
RECURSIVE FramedSum(_, _, _)
FramedSum(recs, i, enc) ==
    IF i > Len(recs) THEN 0 ELSE FramedLen(recs[i], enc) + FramedSum(recs, i + 1, enc)
\* the offset at which the last appended record starts
LastStart == LOG_HEADER_LEN + FramedSum(SubSeq(appended, 1, Len(appended) - 1), 1, jh.enc)

\* Journal::open(path, enc); lastOp keeps the kind of the error returned
JOpen(enc) ==
    /\ ~jh.open
    /\ \E r \in {JournalOpen(logFile, enc)} :
           /\ logFile' = r.file
           /\ jh' = IF r.ok THEN r.h ELSE jh
           /\ lastOp' = IF r.ok THEN "jopen" ELSE r.err
    /\ iterRes' = [done |-> FALSE, items |-> <<>>]
    /\ UNCHANGED <<deltaFile, dh, index, appended, cut, syncRes, ixrest, inflight>>
    /\ UNCHANGED <<packVars, readVars>>

JAppend(rec) ==
    /\ jh.open
    /\ cut = 0
    /\ Len(appended) < MaxAppends
    /\ \E r \in {JournalAppend(logFile, jh, rec)} :
           /\ logFile' = r.file
           /\ jh' = r.h
    /\ appended' = Append(appended, rec)
    /\ lastOp' = "append"
    /\ iterRes' = [done |-> FALSE, items |-> <<>>]
    /\ UNCHANGED <<deltaFile, dh, index, cut, syncRes, ixrest, inflight>>
    /\ UNCHANGED <<packVars, readVars>>

JClose ==
    /\ jh.open
    /\ jh' = [jh EXCEPT !.open = FALSE]
    /\ lastOp' = "close"
    /\ iterRes' = [done |-> FALSE, items |-> <<>>]
    /\ UNCHANGED <<logFile, deltaFile, dh, index, appended, cut, syncRes, ixrest, inflight>>
    /\ UNCHANGED <<packVars, readVars>>

\* the closed file loses its end: it keeps len bytes, len strictly inside
\* the last record
JTruncate(len) ==
    /\ ~jh.open
    /\ cut = 0
    /\ appended # <<>>
    /\ len > LastStart
    /\ len < Len(logFile.data)
    /\ logFile' = [logFile EXCEPT !.data = SubSeq(@, 1, len)]
    /\ cut' = len
    /\ lastOp' = "truncate"
    /\ UNCHANGED <<deltaFile, jh, dh, index, appended, iterRes, syncRes, ixrest, inflight>>
    /\ UNCHANGED <<packVars, readVars>>

\* for item in journal.iter()?: every item up to the first None
JIterate ==
    /\ jh.open
    /\ ~iterRes.done
    /\ \E it \in {JournalIterAll(logFile, jh)} :
           /\ iterRes' = [done |-> TRUE, items |-> it.items]
           /\ jh' = [jh EXCEPT !.pos = it.pos]
    /\ lastOp' = "iter"
    /\ UNCHANGED <<logFile, deltaFile, dh, index, appended, cut, syncRes, ixrest, inflight>>
    /\ UNCHANGED <<packVars, readVars>>

InitIdle ==
    /\ inputs = <<RootPath>>
    /\ srcFiles = <<>>
    /\ srcDirs = <<>>
    /\ opts = NoOpts
    /\ now = 1
    /\ pc = "idle"
    /\ files = <<>>
    /\ dirs = <<>>
    /\ file_plans = <<>>
    /\ planned = {}
    /\ w = NoLayout
    /\ out_f = <<>>
    /\ prev_out = <<>>
    /\ fs = EmptyFs
    /\ extractRes = "none"
    /\ verifyRes = "none"
    /\ tamper = 0
    /\ InitView

InitJournal == InitIdle /\ InitSide(SideModes)

NextJournal ==
    \/ JOpen(jh.enc)
    \/ \E rec \in JRecords : JAppend(rec)
    \/ JClose
    \/ \E len \in 1..Len(logFile.data) : JTruncate(len)
    \/ JIterate

SpecJournal == InitJournal /\ [][NextJournal]_vars

ItemsOk(items) == \A i \in 1..Len(items) : items[i].ok
ItemRecs(items) == [i \in 1..Len(items) |-> items[i].rec]

\* C8: journal durability. A full iteration of the journal yields no error
\* and exactly the appended records in append order; when the file was
\* truncated strictly inside its last record, it yields no error and
\* exactly the records before the last.
C8_JournalDurable ==
    iterRes.done =>
        /\ ItemsOk(iterRes.items)
        /\ ItemRecs(iterRes.items) =
              IF cut = 0 THEN appended ELSE SubSeq(appended, 1, Len(appended) - 1)

\* the case of C8: a sealed journal of two records, reopened after a cut
\* that left one byte of the last record's two-byte length, yields one
C8_Witness ==
    /\ iterRes.done
    /\ jh.enc.aead
    /\ Len(appended) = 2
    /\ FramedLen(appended[2], jh.enc) > 129
    /\ cut = LastStart + 1
    /\ Len(iterRes.items) = 1


\* ------------------------------------------------------------------------
\* The overlay (crud/mod.rs): open, put_file, delete_path, rename, and
\* sync_to_base, which hands a scratch tree to pack.
\* ------------------------------------------------------------------------
MaxOps == 2

\* "a", "/a", "d/b"
KeyA == <<97>>
KeySlashA == <<ChSlash, 97>>
KeyDB == <<100, ChSlash, 98>>
DstPaths == {KeyA, KeySlashA, KeyDB}
RenamePairs == {<<KeyA, KeyDB>>, <<KeySlashA, KeyA>>}
PutContents == {<<>>, <<1>>}

\* CrudArchive::open_with_crypto on the sidecar files in mode enc
open_with_crypto(log, delta, enc) ==
    LET Opened(j, it, rp, d) ==
            IF ~rp.ok THEN [ok |-> FALSE, log |-> j.file, delta |-> delta]
            ELSE [ok |-> TRUE, log |-> j.file, delta |-> d.file,
                  jh |-> [j.h EXCEPT !.pos = it.pos], dh |-> d.h,
                  by_path |-> rp.by_path, rest |-> ReplayRest(NoRest, it.items)]
        Replayed(j, it) == Opened(j, it, Replay(<<>>, it.items), DeltaOpen(delta, enc))
        Of(j) == IF ~j.ok THEN [ok |-> FALSE, log |-> j.file, delta |-> delta]
                 ELSE Replayed(j, JournalIterAll(j.file, j.h))
    IN  Of(JournalOpen(log, enc))

CrudOpen ==
    /\ ~jh.open
    /\ \E r \in {open_with_crypto(logFile, deltaFile, jh.enc)} :
           /\ logFile' = r.log
           /\ deltaFile' = r.delta
           /\ jh' = IF r.ok THEN r.jh ELSE jh
           /\ dh' = IF r.ok THEN r.dh ELSE dh
           /\ index' = IF r.ok THEN r.by_path ELSE index
           /\ ixrest' = IF r.ok THEN r.rest ELSE ixrest
           /\ lastOp' = IF r.ok THEN "open" ELSE "openerr"
    /\ UNCHANGED <<appended, iterRes, cut, syncRes, inflight>>
    /\ UNCHANGED <<packVars, readVars>>

\* the CrudArchive is dropped
CrudClose ==
    /\ jh.open
    /\ jh' = [jh EXCEPT !.open = FALSE]
    /\ dh' = [dh EXCEPT !.open = FALSE]
    /\ lastOp' = "close"
    /\ UNCHANGED <<logFile, deltaFile, index, appended, iterRes, cut, syncRes, ixrest, inflight>>
    /\ UNCHANGED <<packVars, readVars>>

CanOperate == jh.open /\ syncRes = "none" /\ Len(appended) < MaxOps

\* journal.append(&rec) then index.apply(&rec)
LogAndApply(rec, op) ==
    /\ \E ja \in {JournalAppend(logFile, jh, rec)} :
           /\ logFile' = ja.file
           /\ jh' = ja.h
    /\ index' = IndexApply(index, rec)
    /\ ixrest' = RestApply(ixrest, rec)
    /\ appended' = Append(appended, rec)
    /\ lastOp' = op

PutFile(content, dst_path) ==
    /\ CanOperate
    /\ \E fr \in {append_frame(deltaFile, dh, Bytes(content))} :
           /\ deltaFile' = fr.file
           /\ dh' = fr.h
           /\ LogAndApply(PutRec(dst_path, FileMode, 5, Len(content),
                                 <<[loc |-> JKey.Delta, off |-> fr.off,
                                    len |-> fr.len, codec |-> JKey.Store,
                                    blake3 |-> Blake3(Bytes(content))]>>),
                          "put")
    /\ UNCHANGED <<iterRes, cut, syncRes, inflight>>
    /\ UNCHANGED <<packVars, readVars>>

DeletePath(path) ==
    /\ CanOperate
    /\ LogAndApply(DeleteRec(path), "delete")
    /\ UNCHANGED <<deltaFile, dh, iterRes, cut, syncRes, inflight>>
    /\ UNCHANGED <<packVars, readVars>>

Rename(from, to) ==
    /\ CanOperate
    /\ LogAndApply(RenameRec(from, to), "rename")
    /\ UNCHANGED <<deltaFile, dh, iterRes, cut, syncRes, inflight>>
    /\ UNCHANGED <<packVars, readVars>>

\* str::trim_start_matches('/')
RECURSIVE TrimStartSlash(_)
TrimStartSlash(s) ==
    IF s # <<>> /\ s[1] = ChSlash THEN TrimStartSlash(Tail(s)) ELSE s

\* BTreeMap<String, _>::iter: the keys in byte order
RECURSIVE SortKeys(_)
SortKeys(S) ==
    IF S = {} THEN <<>>
    ELSE LET m == CHOOSE x \in S : \A y \in S \ {x} : ~StrLess(y, x, 1)
         IN  <<m>> \o SortKeys(S \ {m})

\* the copy of an entry's chunks into the open scratch file (mod.rs 197-209)
RECURSIVE CopyChunks(_, _, _, _, _, _)
CopyChunks(tfs, loc, chunks, i, delta, h) ==
    IF i > Len(chunks) THEN [ok |-> TRUE, fs |-> tfs]
    ELSE IF chunks[i].loc # JKey.Delta THEN [ok |-> FALSE, fs |-> tfs]
    ELSE LET Of(r) ==
                 IF ~r.ok THEN [ok |-> FALSE, fs |-> tfs]
                 ELSE CopyChunks(file_append(tfs, loc, r.plain), loc, chunks, i + 1,
                                 delta, h)
         IN  Of(read_frame(delta, h, chunks[i].off, chunks[i].len))

\* the loop of sync_to_base over by_path (mod.rs 191-210)
RECURSIVE Materialize(_, _, _, _, _, _)
Materialize(tfs, by_path, keys, i, delta, h) ==
    IF i > Len(keys) THEN [ok |-> TRUE, fs |-> tfs]
    ELSE LET Copied(cp) ==
                 IF ~cp.ok THEN [ok |-> FALSE, fs |-> cp.fs]
                 ELSE Materialize(cp.fs, by_path, keys, i + 1, delta, h)
             Created(cr) ==
                 IF ~cr.ok THEN [ok |-> FALSE, fs |-> cr.fs]
                 ELSE Copied(CopyChunks(cr.fs, cr.loc, by_path[keys[i]].chunks, 1,
                                        delta, h))
             InParent(par, abs) ==
                 IF ~par.ok THEN [ok |-> FALSE, fs |-> par.fs]
                 ELSE Created(file_create(par.fs, abs))
             Of(abs) ==
                 InParent(IF HasRustParent(abs)
                          THEN create_dir_all(tfs, RustParent(abs))
                          ELSE [ok |-> TRUE, fs |-> tfs],
                          abs)
         IN  Of(PathJoin(RootPath, TrimStartSlash(keys[i])))

\* tempfile::tempdir(): an empty directory, here RootPath
ScratchFs == [dirs |-> {<<>>, OsComps(RootPath)}, files |-> <<>>]
\* the path of a location
LocPath(loc) == <<ChSlash>> \o JoinFrom(loc, 1)
\* the tree pack walks: the files and directories of a filesystem
TreeFiles(tfs, mt) ==
    [p \in {LocPath(l) : l \in DOMAIN tfs.files} |->
        LET l == CHOOSE x \in DOMAIN tfs.files : LocPath(x) = p
        IN  [content |-> [i \in 1..Len(tfs.files[l]) |-> CellVal(tfs.files[l][i])],
             mode |-> FileMode, mtime |-> mt]]
TreeDirs(tfs, mt) ==
    [p \in {LocPath(l) : l \in tfs.dirs \ {<<>>}} |-> [mode |-> DirMode, mtime |-> mt]]

\* sync_to_base up to its call of pack (mod.rs 188-220); pack's steps follow
SyncToBase(deterministic, seal_base) ==
    /\ pc = "idle"
    /\ syncRes = "none"
    /\ \E arc \in {open_with_crypto(logFile, deltaFile, jh.enc)} :
       \E m \in {IF arc.ok
                 THEN Materialize(ScratchFs, arc.by_path, SortKeys(DOMAIN arc.by_path),
                                  1, arc.delta, arc.dh)
                 ELSE [ok |-> FALSE, fs |-> ScratchFs]} :
           /\ logFile' = arc.log
           /\ deltaFile' = arc.delta
           /\ IF m.ok
              THEN /\ syncRes' = "packing"
                   /\ srcFiles' = TreeFiles(m.fs, now)
                   /\ srcDirs' = TreeDirs(m.fs, now)
                   /\ opts' = [some |-> TRUE, deterministic |-> deterministic,
                               min_gain |-> DefaultMinGain,
                               aead_key |-> IF seal_base /\ jh.enc.aead
                                            THEN jh.enc.key ELSE NoKey,
                               key_salt |-> jh.enc.salt]
                   /\ pc' = "start"
              ELSE /\ syncRes' = "err"
                   /\ UNCHANGED <<srcFiles, srcDirs, opts, pc>>
    /\ UNCHANGED <<inputs, now, files, dirs, file_plans, planned, w, out_f, prev_out>>
    /\ UNCHANGED <<jh, dh, index, appended, lastOp, iterRes, cut, ixrest, inflight>>
    /\ UNCHANGED readVars

InitCrud == InitIdle /\ InitSide(SideModes)

NextCrud ==
    \/ CrudOpen
    \/ CrudClose
    \/ \E c \in PutContents : \E d \in DstPaths : PutFile(c, d)
    \/ \E d \in DstPaths : DeletePath(d)
    \/ \E pr \in RenamePairs : Rename(pr[1], pr[2])
    \/ \E det \in BOOLEAN : \E seal \in BOOLEAN : SyncToBase(det, seal)
    \/ PackStep
    \/ Extract

SpecCrud == InitCrud /\ [][NextCrud]_vars

\* C9: overlay convergence. While the overlay is open, after open (also a
\* reopen) and after every put_file, delete_path and rename, by_path equals
\* the left fold of apply over the appended records from the empty index,
\* those records are what the journal file holds, and open never fails.
C9_Convergence ==
    /\ lastOp # "openerr"
    /\ jh.open =>
          /\ index = FoldApply(<<>>, appended, 1)
          /\ \E it \in {JournalIterAll(logFile, jh)} :
                ItemsOk(it.items) /\ ItemRecs(it.items) = appended

\* the case of C9: a sealed overlay reopened after a put and a rename that
\* moved the entry
C9_Witness ==
    /\ lastOp = "open"
    /\ jh.enc.aead
    /\ Len(appended) = 2
    /\ appended[1].kind = JKey.Put
    /\ appended[2] = RenameRec(KeyA, KeyDB)
    /\ DOMAIN index = {KeyDB}

\* the bytes the overlay holds for key k: its delta frames in order
RECURSIVE OverlayFrom(_, _)
OverlayFrom(chunks, i) ==
    IF i > Len(chunks) THEN <<>>
    ELSE read_frame(deltaFile, [dh EXCEPT !.enc = jh.enc, !.salt = jh.enc.salt],
                    chunks[i].off, chunks[i].len).plain
         \o OverlayFrom(chunks, i + 1)
OverlayBytes(k) == OverlayFrom(index[k].chunks, 1)
ManifestFilePaths == {ReadManifest.files[i].path : i \in 1..Len(ReadManifest.files)}
KeyLoc(k) == OsComps(DestPath) \o Segments(k)

\* C10: compaction preserves the overlay. sync_to_base does not fail; the
\* container it writes has exactly the overlay's keys as manifest file
\* paths; and extraction puts under each key the bytes the overlay holds.
C10_SyncPreserves ==
    /\ syncRes # "err"
    /\ (syncRes = "packing" /\ Packed) => ManifestFilePaths = DOMAIN index
    /\ (syncRes = "packing" /\ extractRes # "none") =>
          /\ extractRes = "ok"
          /\ \A k \in DOMAIN index :
                /\ KeyLoc(k) \in DOMAIN fs.files
                /\ fs.files[KeyLoc(k)] = OverlayBytes(k)

\* the overlays on which C10 does hold: no key starts with "/"
C10_RelativeKeys ==
    (\A k \in DOMAIN index : ~is_absolute(k)) => C10_SyncPreserves

\* a compaction of a non-empty overlay that was extracted
C10_Reached ==
    /\ syncRes = "packing"
    /\ extractRes = "ok"
    /\ Sealed
    /\ Cardinality(DOMAIN index) = 2


\* ------------------------------------------------------------------------
\* The written archive is handed to the readers after its superblock or its
\* chunk table was rewritten, after one byte of a region changed, or with
\* another key or salt than the writer's.
\* ------------------------------------------------------------------------
\* no reader has been called yet and nothing was changed
Untouched ==
    /\ pc = "done"
    /\ forged = NotForged
    /\ tamper = 0
    /\ listRes = "none"
    /\ openRes = "none"
    /\ extractRes = "none"
    /\ verifyRes = "none"

\* the reader is called with another key (what = "key") or salt ("salt")
ForgeKey(what) ==
    /\ Untouched
    /\ Sealed
    /\ forged' = [what |-> what, at |-> "reader"]
    /\ UNCHANGED <<fs, extractRes, verifyRes, tamper, listRes, openRes, arx, rd, thr>>
    /\ UNCHANGED <<packVars, sideVars>>

\* the superblock fields chunk_table_off, chunk_count and data_off (bytes
\* 16..39 of the file, superblock.rs write_to) are rewritten
ForgeSuper(cto, cnt, doff) ==
    /\ Untouched
    /\ <<cto, cnt, doff>> # <<w.chunk_table_off, w.chunk_count, w.data_off>>
    /\ out_f' = WriteAt(out_f, 16, LE64(cto) \o LE64(cnt) \o LE64(doff))
    /\ forged' = [what |-> "super", at |-> "superblock"]
    /\ UNCHANGED <<inputs, srcFiles, srcDirs, opts, now, pc, files, dirs, file_plans,
                   planned, w, prev_out>>
    /\ UNCHANGED <<fs, extractRes, verifyRes, tamper, listRes, openRes, arx, rd, thr>>
    /\ UNCHANGED sideVars

\* data_off and c_size of the first entry of a plain chunk table (bytes
\* 16..31 of the entry, chunktab.rs write_table) are rewritten
ForgeEntry(c_size, doff) ==
    /\ Untouched
    /\ ~Sealed
    /\ w.chunk_count > 0
    /\ <<c_size, doff>> # <<w.chunk_entries[1].c_size, w.chunk_entries[1].data_off>>
    /\ out_f' = WriteAt(out_f, w.chunk_table_off + 16, LE64(c_size) \o LE64(doff))
    /\ forged' = [what |-> "entry", at |-> "chunktab"]
    /\ UNCHANGED <<inputs, srcFiles, srcDirs, opts, now, pc, files, dirs, file_plans,
                   planned, w, prev_out>>
    /\ UNCHANGED <<fs, extractRes, verifyRes, tamper, listRes, openRes, arx, rd, thr>>
    /\ UNCHANGED sideVars

\* the offsets and counts a rewritten field takes
NatOnly(S) == {x \in S : x >= 0}
ForgedTableOffs == NatOnly({HEADER_LEN, w.chunk_table_off, w.data_off + 1})
ForgedCounts == NatOnly({w.chunk_count - 1, w.chunk_count, w.chunk_count + 1})
ForgedDataOffs ==
    NatOnly({HEADER_LEN, w.chunk_table_off - 1, w.data_off - 1, w.data_off,
             w.data_off + 1, Len(out_f) + 1})
ForgedSizes ==
    IF w.chunk_entries = <<>> THEN {}
    ELSE {w.chunk_entries[1].c_size, w.chunk_entries[1].c_size + 1}
ForgedEntryOffs ==
    IF w.chunk_entries = <<>> THEN {}
    ELSE NatOnly({0, HEADER_LEN, w.chunk_table_off, w.chunk_entries[1].data_off,
                  Len(out_f) - TAIL_LEN, Len(out_f)})
\* the first byte of each region
RegionStarts == {HEADER_LEN, w.chunk_table_off, w.data_off}
ReadLens == {1, 2}

InitForged == InitRun({{RelA}}, {NoOpts} \cup SomeOpts({FALSE}, {0}, {1}), {5})

NextForged ==
    \/ PackStep
    \/ \E what \in {"key", "salt"} : ForgeKey(what)
    \/ \E cto \in ForgedTableOffs : \E cnt \in ForgedCounts :
       \E doff \in ForgedDataOffs : ForgeSuper(cto, cnt, doff)
    \/ \E c_size \in ForgedSizes : \E doff \in ForgedEntryOffs :
           ForgeEntry(c_size, doff)
    \/ \E off \in RegionStarts : Tamper(off, 1)
    \/ List
    \/ Open
    \/ Extract
    \/ Verify
    \/ OpenReader(RelA)
    \/ \E k \in ReadLens : ReadBuf(k)

SpecForged == InitForged /\ [][NextForged]_vars

\* a sealed region does not authenticate under the reader's key and salt
AuthFails == Sealed /\ (forged.what \in {"key", "salt"} \/ tamper # 0)

\* C11: AEAD failures are returned as errors. When a sealed region fails
\* authentication, the public operation that hit it (list, extract, verify,
\* Opened::open, a read on a FileReader) returns an error: none of them ends
\* abnormally.
C11_AeadFailureReturned ==
    AuthFails =>
        /\ listRes # "panic"
        /\ openRes # "panic"
        /\ extractRes # "panic"
        /\ verifyRes # "panic"
        /\ rd.status # "panic"

\* what does hold: no operation that was handed another key returns Ok
C11_NeverRecovered ==
    (Sealed /\ forged.what \in {"key", "salt"}) =>
        /\ listRes # "ok"
        /\ openRes # "ok"
        /\ extractRes # "ok"
        /\ verifyRes # "ok"


\* ------------------------------------------------------------------------
\* pack fails after File::create: a write, seek or flush returns an error (or
\* the process is stopped) and the output file stays as it is.
\* ------------------------------------------------------------------------
\* the stages of pack at which the output file exists and is not yet complete
PartialStages == {"created", "manifest", "data", "super"}

\* pack returns Err (the ? of writer.rs 349-446) and leaves the file
Interrupt ==
    /\ pc \in PartialStages
    /\ pc' = "failed"
    /\ forged' = [what |-> "interrupt", at |-> pc]
    /\ UNCHANGED <<inputs, srcFiles, srcDirs, opts, now, files, dirs, file_plans,
                   planned, w, out_f, prev_out>>
    /\ UNCHANGED <<fs, extractRes, verifyRes, tamper, listRes, openRes, arx, rd, thr>>
    /\ UNCHANGED sideVars

NextPartial ==
    \/ PackStep
    \/ Interrupt
    \/ List
    \/ Open
    \/ Extract
    \/ Verify

SpecPartial == InitForged /\ [][NextPartial]_vars

Rejected(res) == res \in {"none", "err"}

\* C12: failed writes are never accepted. The file a failed pack leaves is
\* rejected with an error by list, Opened::open, extract and verify, whatever
\* the stage pack failed at.
C12_PartialRejected ==
    pc = "failed" =>
        /\ Rejected(listRes)
        /\ Rejected(openRes)
        /\ Rejected(extractRes)
        /\ Rejected(verifyRes)

\* what does hold: a file left before the real superblock was written is
\* rejected by all four, and verify rejects every file without a tail
C12_StubRejected ==
    (pc = "failed" /\ forged.at # "super") =>
        /\ Rejected(listRes)
        /\ Rejected(openRes)
        /\ Rejected(extractRes)
        /\ Rejected(verifyRes)
C12_VerifyRejects == pc = "failed" => Rejected(verifyRes)


\* ------------------------------------------------------------------------
\* Properties of the readers on rewritten archives
\* ------------------------------------------------------------------------
\* the superblock the readers find in the file
SuperOnDisk == SuperblockRead(out_f)

\* HEADER_LEN + manifest_len <= chunk_table_off <= data_off <= file_end_for_data
SuperInBounds(sb, file_end) ==
    /\ HEADER_LEN + sb.manifest_len <= sb.chunk_table_off
    /\ sb.chunk_table_off <= sb.data_off
    /\ sb.data_off <= file_end

SuperOutOfBounds ==
    /\ pc = "done"
    /\ SuperOnDisk.ok
    /\ ~SuperInBounds(SuperOnDisk, file_end_for_data(out_f))

\* C13: superblock bound check on open. Opened::open and list return an error
\* on a container whose superblock does not satisfy HEADER_LEN + manifest_len
\* <= chunk_table_off <= data_off <= file_end_for_data.
C13_SuperblockBounds ==
    SuperOutOfBounds => (Rejected(openRes) /\ Rejected(listRes))

\* the parts of C13: neither accepts such a container; neither ends abnormally
C13_NotAccepted == SuperOutOfBounds => (openRes # "ok" /\ listRes # "ok")
C13_NoPanic == SuperOutOfBounds => (openRes # "panic" /\ listRes # "panic")
\* what does hold: list returns an error when data_off is smaller than
\* chunk_table_off or an offset lies beyond the end of the data area
C13_ListChecks ==
    (/\ SuperOutOfBounds
     /\ \/ SuperOnDisk.data_off < SuperOnDisk.chunk_table_off
        \/ SuperOnDisk.data_off > file_end_for_data(out_f)
        \/ SuperOnDisk.chunk_table_off > file_end_for_data(out_f))
    => Rejected(listRes)


\* the plaintext length of the chunk table the superblock describes: data_off
\* - chunk_table_off, less the tag when sealed
TablePlainLen(sb) ==
    sb.data_off - sb.chunk_table_off - (IF sb.flags % 2 = 1 THEN TAG_LEN ELSE 0)

TableLenMismatch ==
    /\ pc = "done"
    /\ SuperOnDisk.ok
    /\ TablePlainLen(SuperOnDisk) # SuperOnDisk.chunk_count * ENTRY_SIZE

\* C14: chunk-table length check. Opened::open, list, extract and verify
\* return an error on a container whose chunk-table plaintext length differs
\* from chunk_count * 32, shorter or longer.
C14_TableLength ==
    TableLenMismatch =>
        /\ Rejected(openRes)
        /\ Rejected(listRes)
        /\ Rejected(extractRes)
        /\ Rejected(verifyRes)

\* the parts of C14: no reader accepts such a container; the two readers
\* that compare the length exactly (Opened::open, list) do not
C14_NotAccepted ==
    TableLenMismatch =>
        /\ openRes # "ok"
        /\ listRes # "ok"
        /\ extractRes # "ok"
        /\ verifyRes # "ok"
C14_ExactReaders == TableLenMismatch => (openRes # "ok" /\ listRes # "ok")
C14_ShorterRejected ==
    (TableLenMismatch
     /\ TablePlainLen(SuperOnDisk) < SuperOnDisk.chunk_count * ENTRY_SIZE)
    => (extractRes # "ok" /\ verifyRes # "ok")


\* the entries of the plain chunk table in the file, where the superblock is
\* the writer's
EntriesOnDisk ==
    IF pc = "done" /\ ~Sealed /\ forged.what \in {"none", "entry"}
    THEN read_table(ReadAt(out_f, w.chunk_table_off, w.chunk_count * ENTRY_SIZE),
                    w.chunk_count)
    ELSE <<>>

\* some entry's range [data_off, data_off + c_size) is not contained in
\* [superblock.data_off, file_end_for_data)
EntryOutOfRange ==
    \E j \in 1..Len(EntriesOnDisk) :
        \/ EntriesOnDisk[j].data_off < w.data_off
        \/ EntriesOnDisk[j].data_off + EntriesOnDisk[j].c_size
              > file_end_for_data(out_f)

\* C15: chunk range check. Opened::open, list, extract and verify return an
\* error on a container with a chunk-table entry whose byte range is not
\* contained in the data area.
C15_ChunkRange ==
    EntryOutOfRange =>
        /\ Rejected(openRes)
        /\ Rejected(listRes)
        /\ Rejected(extractRes)
        /\ Rejected(verifyRes)

\* what does hold: Opened::open and list return the error, and verify does
\* not accept
C15_OpenListReject == EntryOutOfRange => (Rejected(openRes) /\ Rejected(listRes))
C15_VerifyRejects == EntryOutOfRange => Rejected(verifyRes)


\* ------------------------------------------------------------------------
\* The journal file is opened in the owner's mode or without a key, a file
\* that is no journal lies at its path, or one byte of the closed file
\* changes; the overlay is opened on it.
\* ------------------------------------------------------------------------
\* "NOTALOG!" and one more byte
ForeignBytes == Bytes(<<78, 79, 84, 65, 76, 79, 71, 33, 1>>)

\* a file that Journal::open did not write lies at the journal's path
JPlant ==
    /\ ~jh.open
    /\ ~logFile.exists
    /\ forged.what = "none"
    /\ logFile' = [exists |-> TRUE, data |-> ForeignBytes]
    /\ forged' = [what |-> "foreign", at |-> 0]
    /\ lastOp' = "plant"
    /\ UNCHANGED <<deltaFile, jh, dh, index, appended, iterRes, cut, syncRes, ixrest, inflight>>
    /\ UNCHANGED packVars
    /\ UNCHANGED <<fs, extractRes, verifyRes, tamper, listRes, openRes, arx, rd, thr>>

\* the byte at offset off of the closed journal file changes
JDamage(off, bit) ==
    /\ ~jh.open
    /\ logFile.exists
    /\ forged.what = "none"
    /\ cut = 0
    /\ off < Len(logFile.data)
    /\ logFile' = [logFile EXCEPT !.data[off + 1] = FlipOf(@, bit)]
    /\ forged' = [what |-> "logbyte", at |-> off]
    /\ lastOp' = "damage"
    /\ UNCHANGED <<deltaFile, jh, dh, index, appended, iterRes, cut, syncRes, ixrest, inflight>>
    /\ UNCHANGED packVars
    /\ UNCHANGED <<fs, extractRes, verifyRes, tamper, listRes, openRes, arx, rd, thr>>

\* the offset at which record k of the appended ones starts
RecStart(k) == LOG_HEADER_LEN + FramedSum(SubSeq(appended, 1, k - 1), 1, jh.enc)
\* the first byte of the payload of record k
PayloadStart(k) ==
    RecStart(k) + uvarint_len(Len(EncRecord(appended[k]))
                              + (IF jh.enc.aead THEN 16 ELSE 0))
\* the offsets a change is tried at: the magic, the flags byte, and the
\* length prefix, first and last payload byte of every record
DamageOffs ==
    {0, 9}
    \cup UNION {{RecStart(k), PayloadStart(k), RecStart(k + 1) - 1} :
                  k \in 1..Len(appended)}

\* the modes Journal::open is called with: the owner's, or no key
OpenModes == {jh.enc, PlainMode}

NextSidecar ==
    \/ \E enc \in OpenModes : JOpen(enc)
    \/ \E rec \in JRecords : JAppend(rec)
    \/ JClose
    \/ JIterate
    \/ JPlant
    \/ \E off \in DamageOffs : \E bit \in FlipBits : JDamage(off, bit)
    \/ CrudOpen

SpecSidecar == InitJournal /\ [][NextSidecar]_vars

\* the header of the journal file on disk says AEAD
SealedOnDisk ==
    /\ logFile.exists
    /\ Len(logFile.data) >= LOG_HEADER_LEN
    /\ [i \in 1..8 |-> CellVal(logFile.data[i])] = LOG_MAGIC
    /\ CellVal(logFile.data[10]) % 2 = 1

\* C16: sealed journal without key. Journal::open with EncMode::Plain on an
\* existing journal whose header has FLAG_AEAD set returns PermissionDenied,
\* leaves the file unchanged and yields no handle to read records with.
C16_SealedNeedsKey ==
    [][(SealedOnDisk /\ JOpen(PlainMode)) =>
          /\ lastOp' = "PermissionDenied"
          /\ logFile' = logFile
          /\ ~jh'.open
          /\ ~iterRes'.done
          /\ index' = index]_vars

\* a handle without a key is never open on a journal whose header says AEAD
C16_NoPlainHandle == (jh.open /\ ~jh.enc.aead) => ~SealedOnDisk

\* the case of C16: a sealed journal holding a record was opened without a
\* key and the open was refused
C16_Witness ==
    /\ lastOp = "PermissionDenied"
    /\ SealedOnDisk
    /\ appended # <<>>
    /\ Len(logFile.data) > LOG_HEADER_LEN
    /\ forged.what = "none"


\* one byte changed in a record that is followed by a further record
NonFinalDamaged ==
    /\ forged.what = "logbyte"
    /\ Len(appended) >= 2
    /\ forged.at >= LOG_HEADER_LEN
    /\ forged.at < RecStart(Len(appended))
\* the changed byte lies in the payload of its record, not in the length
DamagedPayload ==
    \E k \in 1..(Len(appended) - 1) :
        forged.at >= PayloadStart(k) /\ forged.at < RecStart(k + 1)

\* C17: only a truncated tail is forgiven. When a record that is followed by
\* further records is damaged, a full iteration of the journal reports an
\* error and CrudArchive::open_with_crypto fails.
C17_OnlyTailForgiven ==
    NonFinalDamaged =>
        /\ iterRes.done => ~ItemsOk(iterRes.items)
        /\ lastOp # "open"

\* what does hold: in a sealed journal a changed payload byte of any record
\* before the last is reported
C17_SealedPayloadReported ==
    (NonFinalDamaged /\ DamagedPayload /\ jh.enc.aead) =>
        /\ iterRes.done => ~ItemsOk(iterRes.items)
        /\ lastOp # "open"

\* a file of at least 8 bytes that does not start with the journal magic
ForeignOnDisk ==
    /\ logFile.exists
    /\ Len(logFile.data) >= 8
    /\ [i \in 1..8 |-> CellVal(logFile.data[i])] # LOG_MAGIC

\* C18: journal magic validation. Journal::open on an existing file whose
\* first 8 bytes are not the journal magic returns an error and leaves the
\* file's contents unchanged.
C18_MagicValidated ==
    [][\A enc \in OpenModes :
          (ForeignOnDisk /\ JOpen(enc)) =>
              (lastOp' # "jopen" /\ logFile' = logFile)]_vars


\* ------------------------------------------------------------------------
\* The delta store on its own (container/delta.rs): open, append_frame,
\* read_frame of a frame appended before, close and reopen.
\* ------------------------------------------------------------------------
MaxFrames == 3

\* the plaintexts of the frames: empty, one byte, two bytes
FramePlains == {Bytes(<<>>), Bytes(<<1>>), Bytes(<<2, 3>>)}

\* DeltaStore::open(path, enc) with the store's key and salt
DOpen ==
    /\ ~dh.open
    /\ \E r \in {DeltaOpen(deltaFile, dh.enc)} :
           /\ deltaFile' = r.file
           /\ dh' = r.h
    /\ lastOp' = "dopen"
    /\ UNCHANGED <<logFile, jh, index, appended, iterRes, cut, syncRes, ixrest, inflight>>
    /\ UNCHANGED <<packVars, readVars>>

\* append_frame(plain): appended keeps the plaintext and the returned
\* (off, len)
DAppend(plain) ==
    /\ dh.open
    /\ Len(appended) < MaxFrames
    /\ \E r \in {append_frame(deltaFile, dh, plain)} :
           /\ deltaFile' = r.file
           /\ dh' = r.h
           /\ appended' = Append(appended,
                                 [plain |-> plain, off |-> r.off, len |-> r.len])
    /\ lastOp' = "dappend"
    /\ UNCHANGED <<logFile, jh, index, iterRes, cut, syncRes, ixrest, inflight>>
    /\ UNCHANGED <<packVars, readVars>>

\* read_frame(off, len) with the values append_frame returned for frame k:
\* the clone of the file handle shares the position with the store's handle
DRead(k) ==
    /\ dh.open
    /\ k \in 1..Len(appended)
    /\ \E r \in {read_frame(deltaFile, dh, appended[k].off, appended[k].len)} :
           dh' = [dh EXCEPT !.pos = r.pos]
    /\ lastOp' = "dread"
    /\ UNCHANGED <<logFile, deltaFile, jh, index, appended, iterRes, cut, syncRes, ixrest, inflight>>
    /\ UNCHANGED <<packVars, readVars>>

\* the DeltaStore is dropped
DClose ==
    /\ dh.open
    /\ dh' = [dh EXCEPT !.open = FALSE]
    /\ lastOp' = "dclose"
    /\ UNCHANGED <<logFile, deltaFile, jh, index, appended, iterRes, cut, syncRes, ixrest, inflight>>
    /\ UNCHANGED <<packVars, readVars>>

NextDelta ==
    \/ DOpen
    \/ \E plain \in FramePlains : DAppend(plain)
    \/ \E k \in 1..MaxFrames : DRead(k)
    \/ DClose

SpecDelta == InitJournal /\ [][NextDelta]_vars

\* the store as it is, or as DeltaStore::open returns it on the same file
StoreNow == IF dh.open THEN dh ELSE DeltaOpen(deltaFile, dh.enc).h

\* frame k reads back: read_frame(off, len) returns its plaintext
ReadsBack(k) ==
    \E r \in {read_frame(deltaFile, StoreNow, appended[k].off, appended[k].len)} :
        r.ok /\ r.plain = appended[k].plain

\* the returned (off, len) of frame k: len is the payload length on disk and
\* the varint of len ends at off
Located(k) ==
    /\ appended[k].len = Len(appended[k].plain) + (IF dh.enc.aead THEN 16 ELSE 0)
    /\ appended[k].off >= uvarint_len(appended[k].len)
    /\ ReadAt(deltaFile.data, appended[k].off - uvarint_len(appended[k].len),
              uvarint_len(appended[k].len)) = put_uvarint(appended[k].len)

\* C19: delta frame round trip. For every frame append_frame returned
\* (off, len) for, len is the payload length on disk, off is the offset just
\* after the varint length prefix, and read_frame(off, len) on the same store
\* or on a reopened one returns exactly the plaintext appended.
C19_FrameRoundTrip ==
    \A k \in 1..Len(appended) : Located(k) /\ ReadsBack(k)

\* what does hold: the frame just appended is located and reads back
C19_LastFrame ==
    (lastOp = "dappend") => (Located(Len(appended)) /\ ReadsBack(Len(appended)))

\* ------------------------------------------------------------------------
\* Range reads: pack runs to its end, the archive is opened, and one reader
\* (whole-file or range) is read with buffers of several sizes until read
\* returns 0.
\* ------------------------------------------------------------------------
MaxStart == 4
MaxLen == 4
RangeBufs == ReadLens \cup {CopyBuf}

NextRange ==
    \/ PackStep
    \/ Open
    \/ OpenReader(RelA)
    \/ \E start \in 0..MaxStart : \E len \in 0..MaxLen : OpenRange(RelA, start, len)
    \/ \E k \in RangeBufs : ReadBuf(k)

SpecRange == InitForged /\ [][NextRange]_vars

\* read_to_end on a FileReader: the bytes of every read until one returns 0
\* or fails
RECURSIVE ReadToEnd(_, _, _, _)
ReadToEnd(a, f, r, acc) ==
    LET Of(x) == IF x.res # "ok" \/ x.bytes = <<>> THEN acc
                 ELSE ReadToEnd(a, f, x.r, acc \o x.bytes)
    IN  Of(FileRead(a, f, r, CopyBuf))

\* the stream open_reader(path) produces on the open archive
StreamOf(path) == ReadToEnd(arx, out_f, FileReaderNew(arx, path).r, <<>>)

\* the size the manifest records for path
SizeOf(path) ==
    LET Of(S) == IF S = {} THEN 0 ELSE arx.manifest.files[CHOOSE i \in S : TRUE].u_size
    IN  Of({i \in 1..Len(arx.manifest.files) : arx.manifest.files[i].path = path})

\* bytes [min(start, S), min(start + len, S)) of stream
RangeOf(stream, S, start, len) ==
    SubSeq(stream, Min2(start, S) + 1, Min2(start + len, S))

\* C20: range reads. For a file of size S of an opened container and every
\* start and len, open_range(path, start, len) succeeds and the bytes it
\* produces until read returns 0 are exactly bytes [min(start, S),
\* min(start + len, S)) of the stream open_reader(path) produces; before
\* that they are a prefix of them; for start >= S or len = 0 it yields
\* nothing, and it never yields more than len bytes.
C20_RangeReads ==
    /\ rd.kind # "failed"
    /\ rd.kind = "range" =>
          \E want \in {RangeOf(StreamOf(rd.path), SizeOf(rd.path), rd.start, rd.len)} :
              /\ rd.status \in {"open", "eof"}
              /\ Len(rd.out) <= rd.len
              /\ IsPrefixOf(rd.out, want)
              /\ rd.status = "eof" => rd.out = want
              /\ (rd.start >= SizeOf(rd.path) \/ rd.len = 0) => rd.out = <<>>

\* a range strictly inside a file of several chunks was read to its end
C20_Witness ==
    /\ rd.kind = "range"
    /\ rd.status = "eof"
    /\ Len(rd.chunk_ids) >= 2
    /\ rd.start > 0
    /\ rd.len > 0
    /\ rd.start + rd.len < SizeOf(rd.path)
    /\ Len(rd.out) = rd.len
    /\ rd.out = SubSeq(Bytes(srcFiles[PathJoin(RootPath, RelA)].content),
                       rd.start + 1, rd.start + rd.len)

\* ------------------------------------------------------------------------
\* Concurrent readers: the threads share one Opened and so one File behind
\* a Mutex; each owns its reader.  A read that needs the next chunk takes
\* the lock, seeks, reads the chunk's bytes, drops the guard, and then opens
\* and decodes what it read.
\* ------------------------------------------------------------------------
ConcStarts == {0, 1}
ConcLens == {1, 2}

\* a lock() that does not wait for the holder
MutexAlwaysFree(holder) == TRUE

\* self.arx.f.lock() returns once no thread holds the guard
MutexFree(holder) == holder = 0

\* the chunk-table index the reader loads next, and its entry
NextIdx(th) == th.r.chunk_ids[th.r.cur + 1]
NextEntry(th) == arx.table[NextIdx(th) + 1]

\* read returns bytes (none at the end): io::copy in RangeReader::new
\* discards them, <RangeReader as Read>::read counts them off remain
Deliver(th, bytes) ==
    IF th.skip > 0
    THEN [th EXCEPT !.pc = "idle",
                    !.skip = IF bytes = <<>> THEN 0 ELSE @ - Len(bytes)]
    ELSE [th EXCEPT !.pc = "idle",
                    !.r.out = @ \o bytes,
                    !.r.remain = IF th.r.kind = "range" THEN @ - Len(bytes) ELSE @,
                    !.r.status = IF bytes = <<>> THEN "eof" ELSE "open"]

\* read returns an error, or the thread panics
Failed(th, res) == [th EXCEPT !.pc = "idle", !.r.status = res]

\* the loop of <FileReader as Read>::read up to the lock of load_next
ReadLoop(th) ==
    IF th.r.has_buf /\ th.r.cur_buf # <<>>
    THEN Deliver([th EXCEPT !.r.cur_buf =
                                SubSeq(@, Min2(th.k, Len(@)) + 1, Len(@))],
                 SubSeq(th.r.cur_buf, 1, Min2(th.k, Len(th.r.cur_buf))))
    ELSE IF th.r.cur >= Len(th.r.chunk_ids)
    THEN Deliver([th EXCEPT !.r.has_buf = FALSE, !.r.cur_buf = <<>>], <<>>)
    ELSE IF NextIdx(th) >= Len(arx.table) THEN Failed(th, "panic")
    ELSE [th EXCEPT !.r.has_buf = FALSE, !.r.cur_buf = <<>>, !.pc = "lock"]

\* a read with a buffer of k bytes begins: the next read of io::copy while
\* start bytes are being discarded, else <RangeReader as Read>::read or
\* <FileReader as Read>::read
BeginRead(th, k) ==
    IF th.skip > 0 THEN ReadLoop([th EXCEPT !.k = Min2(CopyBuf, th.skip)])
    ELSE IF th.r.kind = "range" /\ th.r.remain = 0 THEN Deliver(th, <<>>)
    ELSE ReadLoop([th EXCEPT !.k = IF th.r.kind = "range" THEN Min2(th.r.remain, k)
                                   ELSE k])

\* thread t calls arx.open_reader(path)
TOpenReader(t, path) ==
    /\ openRes = "ok"
    /\ thr.t[t].r.kind = "none"
    /\ \E x \in {FileReaderNew(arx, path)} :
           thr' = [thr EXCEPT !.t[t] = [NoThread EXCEPT !.r = ReaderAfter(x.res, x.r)]]
    /\ UNCHANGED <<fs, extractRes, verifyRes, tamper, forged, listRes, openRes, arx, rd>>
    /\ UNCHANGED <<packVars, sideVars>>

\* thread t calls arx.open_range(path, start, len) and is about to discard
\* start bytes
TOpenRange(t, path, start, len) ==
    /\ openRes = "ok"
    /\ thr.t[t].r.kind = "none"
    /\ \E x \in {FileReaderNew(arx, path)} :
           thr' = [thr EXCEPT !.t[t] =
                      [NoThread EXCEPT
                          !.skip = start,
                          !.r = ReaderAfter(x.res,
                                            [x.r EXCEPT !.kind = "range",
                                                        !.remain = len,
                                                        !.start = start,
                                                        !.len = len])]]
    /\ UNCHANGED <<fs, extractRes, verifyRes, tamper, forged, listRes, openRes, arx, rd>>
    /\ UNCHANGED <<packVars, sideVars>>

\* thread t calls read with a buffer of k bytes
TRead(t, k) ==
    /\ thr.t[t].r.status = "open"
    /\ thr.t[t].pc = "idle"
    /\ thr' = [thr EXCEPT !.t[t] = BeginRead(@, k)]
    /\ UNCHANGED <<fs, extractRes, verifyRes, tamper, forged, listRes, openRes, arx, rd>>
    /\ UNCHANGED <<packVars, sideVars>>

\* load_next: let mut f = self.arx.f.lock()
TLock(t) ==
    /\ thr.t[t].pc = "lock"
    /\ MutexFree(thr.lock)
    /\ thr' = [thr EXCEPT !.lock = t, !.t[t].pc = "seek"]
    /\ UNCHANGED <<fs, extractRes, verifyRes, tamper, forged, listRes, openRes, arx, rd>>
    /\ UNCHANGED <<packVars, sideVars>>

\* load_next: f.seek(SeekFrom::Start(ce.data_off))
TSeek(t) ==
    /\ thr.t[t].pc = "seek"
    /\ thr' = [thr EXCEPT !.pos = NextEntry(thr.t[t]).data_off, !.t[t].pc = "read"]
    /\ UNCHANGED <<fs, extractRes, verifyRes, tamper, forged, listRes, openRes, arx, rd>>
    /\ UNCHANGED <<packVars, sideVars>>

\* load_next: f.read_exact(&mut ct) at the position of the file; an error
\* returns and drops the guard
TReadExact(t) ==
    /\ thr.t[t].pc = "read"
    /\ \E n \in {NextEntry(thr.t[t]).c_size} :
           IF CanRead(out_f, thr.pos, n)
           THEN thr' = [thr EXCEPT !.pos = @ + n,
                                   !.t[t].ct = ReadAt(out_f, thr.pos, n),
                                   !.t[t].pc = "unlock"]
           ELSE thr' = [thr EXCEPT !.pos = IF @ < Len(out_f) THEN Len(out_f) ELSE @,
                                   !.lock = 0,
                                   !.t[t] = Failed(@, "err")]
    /\ UNCHANGED <<fs, extractRes, verifyRes, tamper, forged, listRes, openRes, arx, rd>>
    /\ UNCHANGED <<packVars, sideVars>>

\* load_next: drop(f)
TUnlock(t) ==
    /\ thr.t[t].pc = "unlock"
    /\ thr' = [thr EXCEPT !.lock = 0, !.t[t].pc = "decode"]
    /\ UNCHANGED <<fs, extractRes, verifyRes, tamper, forged, listRes, openRes, arx, rd>>
    /\ UNCHANGED <<packVars, sideVars>>

\* load_next: AEAD open and decompression of the bytes read, then the rest
\* of the read that asked for the chunk
TDecode(t) ==
    /\ thr.t[t].pc = "decode"
    /\ \E x \in {open_chunk(arx, thr.t[t].r, NextIdx(thr.t[t]), NextEntry(thr.t[t]),
                            thr.t[t].ct)} :
           thr' = [thr EXCEPT !.t[t] =
                      IF x.res # "true" THEN Failed(@, x.res)
                      ELSE ReadLoop([@ EXCEPT !.r = x.r, !.ct = <<>>])]
    /\ UNCHANGED <<fs, extractRes, verifyRes, tamper, forged, listRes, openRes, arx, rd>>
    /\ UNCHANGED <<packVars, sideVars>>

NextConc ==
    \/ PackStep
    \/ Open
    \/ \E t \in Threads : TOpenReader(t, RelA)
    \/ \E t \in Threads : \E start \in ConcStarts : \E len \in ConcLens :
           TOpenRange(t, RelA, start, len)
    \/ \E t \in Threads : \E k \in ReadLens : TRead(t, k)
    \/ \E t \in Threads : TLock(t)
    \/ \E t \in Threads : TSeek(t)
    \/ \E t \in Threads : TReadExact(t)
    \/ \E t \in Threads : TUnlock(t)
    \/ \E t \in Threads : TDecode(t)

SpecConc == InitForged /\ [][NextConc]_vars

\* what the reader of a thread yields when it runs alone
AloneStream(r) ==
    IF r.kind = "range"
    THEN RangeOf(StreamOf(r.path), SizeOf(r.path), r.start, r.len)
    ELSE StreamOf(r.path)

\* the bytes of the chunk the thread is loading
ChunkBytes(th) == ReadAt(out_f, NextEntry(th).data_off, NextEntry(th).c_size)

\* C21: concurrent readers do not disturb each other. However the threads
\* interleave, each reader yields a prefix of the stream it yields alone and
\* exactly that stream once read has returned 0, and no read fails; a thread
\* holds the lock from the seek to the end of the read of one chunk, reads
\* at the offset it set itself, and has released the lock when it opens and
\* decodes the bytes it read.
C21_ReadersIndependent ==
    \A t \in Threads :
        /\ thr.t[t].r.kind # "failed"
        /\ thr.t[t].r.status \in {"none", "open", "eof"}
        /\ thr.t[t].r.kind \in {"file", "range"} =>
              \E want \in {AloneStream(thr.t[t].r)} :
                  /\ IsPrefixOf(thr.t[t].r.out, want)
                  /\ thr.t[t].r.status = "eof" => thr.t[t].r.out = want
        /\ thr.t[t].pc \in {"seek", "read", "unlock"} => thr.lock = t
        /\ thr.t[t].pc = "read" => thr.pos = NextEntry(thr.t[t]).data_off
        /\ thr.t[t].pc = "unlock" => thr.t[t].ct = ChunkBytes(thr.t[t])
        /\ thr.t[t].pc = "decode" =>
              thr.lock # t /\ thr.t[t].ct = ChunkBytes(thr.t[t])

\* one thread decodes a chunk while the other, holding the lock, has sought
\* to a different chunk
C21_Witness ==
    /\ thr.t[1].pc = "decode"
    /\ thr.t[2].pc = "read"
    /\ thr.lock = 2
    /\ NextEntry(thr.t[1]).data_off # NextEntry(thr.t[2]).data_off
    /\ thr.t[2].r.out # <<>>

\* both threads read to the end
C21_BothDone ==
    /\ thr.t[1].r.status = "eof" /\ thr.t[1].r.kind = "file"
    /\ thr.t[2].r.status = "eof" /\ thr.t[2].r.kind = "range"
    /\ thr.t[2].r.out # <<>> /\ thr.t[2].r.start > 0
    /\ Len(thr.t[1].r.chunk_ids) >= 2

\* ------------------------------------------------------------------------
\* The overlay's operations on paths: put_file, delete_path, rename,
\* delete_path_recursive and open_reader on one open CrudArchive, next to a
\* host filesystem (srcFiles, srcDirs, paths relative to the working
\* directory).
\* ------------------------------------------------------------------------
MaxRecs == 3
KeyD == <<100>>
KeyB == <<98>>
OverlayPaths == {KeyA, KeyDB}
\* the host has nothing, or a directory "d" holding a file "b"
HostTrees == {[files |-> {}, dirs |-> {}], [files |-> {KeyDB}, dirs |-> {KeyD}]}

InitOverlay ==
    /\ InitSide(SideModes)
    /\ inputs = <<RootPath>>
    /\ \E h \in HostTrees :
          /\ srcFiles = [q \in h.files |-> [content |-> <<1>>, mode |-> FileMode,
                                           mtime |-> 5]]
          /\ srcDirs = [q \in h.dirs |-> [mode |-> DirMode, mtime |-> 5]]
    /\ opts = NoOpts
    /\ now = 1
    /\ pc = "idle"
    /\ files = <<>>
    /\ dirs = <<>>
    /\ file_plans = <<>>
    /\ planned = {}
    /\ w = NoLayout
    /\ out_f = <<>>
    /\ prev_out = <<>>
    /\ fs = EmptyFs
    /\ extractRes = "none"
    /\ verifyRes = "none"
    /\ tamper = 0
    /\ InitView

CanOverlay == jh.open /\ syncRes = "none" /\ Len(appended) < MaxRecs

\* the records delete_path_recursive(path) appends: one Delete per entry
\* WalkDir yields at path on the host, named by the entry's path relative to
\* path, then Delete{path} (mod.rs 118-138)
RecursiveDeletes(path, host) ==
    LET Of(found) ==
            [i \in 1..Len(found) |-> DeleteRec(StripPrefix(found[i], path))]
            \o <<DeleteRec(path)>>
    IN  Of(SortPaths({q \in host : HasPrefix(q, path)}))

\* journal.append(&rec) for each record in turn
RECURSIVE AppendAll(_, _, _, _)
AppendAll(file, h, recs, i) ==
    IF i > Len(recs) THEN [file |-> file, h |-> h]
    ELSE LET Of(ja) == AppendAll(ja.file, ja.h, recs, i + 1)
         IN  Of(JournalAppend(file, h, recs[i]))

\* the loop of open_reader over the entry's chunks (mod.rs 170-174)
RECURSIVE ReadChunks(_, _, _, _, _)
ReadChunks(chunks, i, delta, h, out) ==
    IF i > Len(chunks) THEN [res |-> "ok", out |-> out, pos |-> h.pos]
    ELSE LET Of(r) ==
                 IF ~r.ok THEN [res |-> "err", out |-> <<>>, pos |-> r.pos]
                 ELSE ReadChunks(chunks, i + 1, delta, [h EXCEPT !.pos = r.pos],
                                 out \o r.plain)
         IN  Of(read_frame(delta, h, chunks[i].off, chunks[i].len))

\* CrudArchive::open_reader(path): the result, the bytes of the reader, and
\* where the delta file's position is left
overlay_open_reader(by_path, delta, h, path) ==
    IF path \notin DOMAIN by_path
    THEN [res |-> "NotFound", out |-> <<>>, pos |-> h.pos]
    ELSE IF \E i \in 1..Len(by_path[path].chunks) :
                by_path[path].chunks[i].loc = JKey.Base
    THEN [res |-> "Unsupported", out |-> <<>>, pos |-> h.pos]
    ELSE ReadChunks(by_path[path].chunks, 1, delta, h, <<>>)

OvPut(content, dst_path) ==
    /\ CanOverlay
    /\ \E fr \in {append_frame(deltaFile, dh, Bytes(content))} :
           /\ deltaFile' = fr.file
           /\ dh' = fr.h
           /\ LogAndApply(PutRec(dst_path, FileMode, 5, Len(content),
                                 <<[loc |-> JKey.Delta, off |-> fr.off,
                                    len |-> fr.len, codec |-> JKey.Store,
                                    blake3 |-> Blake3(Bytes(content))]>>),
                          "put")
    /\ UNCHANGED <<iterRes, cut, syncRes, inflight>>
    /\ UNCHANGED <<packVars, readVars>>

\* a Put whose chunk lies in the base archive, as a writer of base-backed
\* entries logs it: journal.append(&rec), index.apply(&rec)
OvPutBase(dst_path) ==
    /\ CanOverlay
    /\ LogAndApply(PutRec(dst_path, FileMode, 5, 1,
                          <<[loc |-> JKey.Base, off |-> 0, len |-> 1,
                             codec |-> JKey.Store, blake3 |-> Blake3(Bytes(<<1>>))]>>),
                   "putbase")
    /\ UNCHANGED <<deltaFile, dh, iterRes, cut, syncRes, inflight>>
    /\ UNCHANGED <<packVars, readVars>>

OvDelete(path) ==
    /\ CanOverlay
    /\ LogAndApply(DeleteRec(path), "delete")
    /\ UNCHANGED <<deltaFile, dh, iterRes, cut, syncRes, inflight>>
    /\ UNCHANGED <<packVars, readVars>>

OvRename(from, to) ==
    /\ CanOverlay
    /\ LogAndApply(RenameRec(from, to), "rename")
    /\ UNCHANGED <<deltaFile, dh, iterRes, cut, syncRes, inflight>>
    /\ UNCHANGED <<packVars, readVars>>

\* delete_path_recursive(path)
OvDeleteRecursive(path) ==
    /\ CanOverlay
    /\ \E recs \in {RecursiveDeletes(path, (DOMAIN srcFiles) \cup (DOMAIN srcDirs))} :
           /\ \E ja \in {AppendAll(logFile, jh, recs, 1)} :
                  /\ logFile' = ja.file
                  /\ jh' = ja.h
           /\ index' = FoldApply(index, recs, 1)
           /\ ixrest' = ixrest   \* Delete records only
           /\ appended' = appended \o recs
    /\ lastOp' = "rdelete"
    /\ UNCHANGED <<deltaFile, dh, iterRes, cut, syncRes, inflight>>
    /\ UNCHANGED <<packVars, readVars>>

\* open_reader(path), the reader read to its end
OvRead(path) ==
    /\ jh.open
    /\ syncRes = "none"
    /\ \E x \in {overlay_open_reader(index, deltaFile, dh, path)} :
           /\ rd' = [NoReader EXCEPT !.kind = "overlay", !.status = x.res,
                                     !.out = x.out, !.path = path]
           /\ dh' = [dh EXCEPT !.pos = x.pos]
    /\ lastOp' = "read"
    /\ UNCHANGED <<logFile, deltaFile, jh, index, appended, iterRes, cut, syncRes, ixrest, inflight>>
    /\ UNCHANGED <<fs, extractRes, verifyRes, tamper, forged, listRes, openRes, arx, thr>>
    /\ UNCHANGED packVars

NextOverlay ==
    \/ CrudOpen
    \/ \E c \in PutContents : \E d \in OverlayPaths : OvPut(c, d)
    \/ \E d \in {KeyA} : OvPutBase(d)
    \/ \E d \in {KeyDB} : OvDelete(d)
    \/ \E pr \in {<<KeyA, KeyB>>} : OvRename(pr[1], pr[2])
    \/ \E d \in {KeyA, KeyD} : OvDeleteRecursive(d)
    \/ \E d \in OverlayPaths \cup {KeyB} : OvRead(d)

SpecOverlay == InitOverlay /\ [][NextOverlay]_vars

\* by_path without path and what lies under it
WithoutSubtree(by_path, path) ==
    [q \in {k \in DOMAIN by_path : ~HasPrefix(k, path)} |-> by_path[q]]

\* C22: recursive delete is logical. delete_path_recursive(p) leaves by_path
\* without p and without every entry under p in the archive's namespace, and
\* with every other entry as it was, whatever exists at p on the host.
C22_RecursiveDeleteLogical ==
    [][\A p \in {KeyA, KeyD} :
          OvDeleteRecursive(p) => index' = WithoutSubtree(index, p)]_vars

\* what does hold: the path itself is gone, and nothing was added or changed
C22_PathItselfGone ==
    [][\A p \in {KeyA, KeyD} :
          OvDeleteRecursive(p) =>
              /\ p \notin DOMAIN index'
              /\ \A q \in DOMAIN index' : q \in DOMAIN index /\ index'[q] = index[q]]_vars

\* with nothing at p on the host it is delete_path(p)
C22_EmptyHostIsDelete ==
    [][\A p \in {KeyA, KeyD} :
          (OvDeleteRecursive(p) /\ srcFiles = <<>>) =>
              index' = IndexApply(index, DeleteRec(p))]_vars

\* the entry has a chunk in the base archive
HasBaseChunk(e) == \E i \in 1..Len(e.chunks) : e.chunks[i].loc = JKey.Base

\* C23: overlay reads. open_reader(path) returns NotFound when path is not
\* in by_path; returns the Unsupported error, the delta store untouched,
\* when a chunk of the entry lies in the base; and otherwise succeeds with
\* the bytes of the source of the Put the path resolves to (its size and
\* its digest), after any sequence of put_file, rename, delete_path and
\* open_reader calls.
C23_OverlayReads ==
    [][\A p \in OverlayPaths \cup {KeyB} :
          OvRead(p) =>
              IF p \notin DOMAIN index THEN rd'.status = "NotFound"
              ELSE IF HasBaseChunk(index[p])
              THEN rd'.status = "Unsupported" /\ dh' = dh
              ELSE /\ rd'.status = "ok"
                   /\ Len(rd'.out) = index[p].size
                   /\ Blake3(rd'.out) = index[p].chunks[1].blake3]_vars

\* what does hold: the two errors, and the content as long as no put_file
\* follows an open_reader
C23_ErrorsDistinct ==
    [][\A p \in OverlayPaths \cup {KeyB} :
          OvRead(p) =>
              /\ p \notin DOMAIN index => rd'.status = "NotFound" /\ dh' = dh
              /\ (p \in DOMAIN index /\ HasBaseChunk(index[p])) =>
                    rd'.status = "Unsupported" /\ dh' = dh
              /\ (p \in DOMAIN index /\ ~HasBaseChunk(index[p])) =>
                    rd'.status \in {"ok", "err"}]_vars

C23_ContentBeforeReadThenPut ==
    [][\A p \in OverlayPaths \cup {KeyB} :
          (OvRead(p) /\ rd.kind = "none" /\ p \in DOMAIN index
             /\ ~HasBaseChunk(index[p])) =>
              /\ rd'.status = "ok"
              /\ Len(rd'.out) = index[p].size
              /\ Blake3(rd'.out) = index[p].chunks[1].blake3]_vars

\* ------------------------------------------------------------------------
\* Archives without a tail summary
\* ------------------------------------------------------------------------
\* pack stopped after the superblock rewrite: a well-formed container with
\* everything but the tail
TailLess == pc = "failed" /\ forged.what = "interrupt" /\ forged.at = "super"

\* C24: the tail is optional for reading and mandatory for verify. A
\* container without a tail summary that is otherwise well formed is opened
\* and listed successfully, the data region's upper bound being the file
\* length, and verify on it returns an error.
C24_TailOptional ==
    TailLess =>
        /\ listRes \in {"none", "ok"}
        /\ openRes \in {"none", "ok"}
        /\ openRes = "ok" => arx.file_end_for_data = Len(out_f)
        /\ verifyRes \in {"none", "err"}

\* a container of at least one chunk, longer than a tail, went through list,
\* Opened::open and verify
C24_Witness ==
    /\ TailLess
    /\ Len(out_f) >= TAIL_LEN
    /\ listRes = "ok"
    /\ openRes = "ok"
    /\ arx.table # <<>>
    /\ arx.file_end_for_data = Len(out_f)
    /\ verifyRes = "err"

\* ------------------------------------------------------------------------
\* The layout of a written archive, read back from its bytes
\* ------------------------------------------------------------------------
\* the chunk-table region as the superblock locates it, opened when sealed
TableOnDisk(sb) ==
    LET Of(raw) == IF sb.flags % 2 = 1 THEN aead_plain(raw) ELSE raw
    IN  Of(ReadAt(out_f, sb.chunk_table_off, sb.data_off - sb.chunk_table_off))

\* where the bytes written for the first i chunks end
WrittenEnd(i) ==
    IF i = 0 THEN w.data_off
    ELSE w.chunk_entries[i].data_off + w.chunk_entries[i].c_size

\* the bytes the data loop writes for entry j (1-based): the chunk's bytes
\* compressed by the planned codec, sealed when a key was given
ChunkWritten(j) ==
    ChunkOnDisk(w, opts, j - 1,
                CompressPlain(w.plans[j].codec, Bytes(EntryChunkBytes(j))))

\* the layout of the superblock sb and of the table entries
LayoutOk(sb, entries) ==
    /\ sb.ok
    /\ sb.manifest_len = Len(w.manifest_bytes)
    /\ sb.chunk_table_off = HEADER_LEN + sb.manifest_len
    /\ sb.chunk_count = Len(entries)
    /\ sb.data_off = sb.chunk_table_off + ENTRY_SIZE * sb.chunk_count
                        + (IF Sealed THEN TAG_LEN ELSE 0)
    /\ \A j \in 1..Len(entries) :
          /\ entries[j].data_off = IF j = 1 THEN sb.data_off
                                   ELSE entries[j - 1].data_off + entries[j - 1].c_size
          /\ entries[j].c_size = Len(ChunkWritten(j))
          /\ entries[j].c_size =
                Len(CompressPlain(entries[j].codec, Bytes(EntryChunkBytes(j))))
                   + (IF Sealed THEN TAG_LEN ELSE 0)
          /\ ReadAt(out_f, entries[j].data_off, entries[j].c_size) = ChunkWritten(j)
    /\ \A j, k \in 1..Len(entries) :
          j < k => entries[j].data_off + entries[j].c_size <= entries[k].data_off
    /\ Len(out_f) - TAIL_LEN =
          (IF entries = <<>> THEN sb.data_off
           ELSE entries[Len(entries)].data_off + entries[Len(entries)].c_size)
    /\ file_end_for_data(out_f) = Len(out_f) - TAIL_LEN
    /\ (sb.flags = FLAG_ENCRYPTED) = Sealed
    /\ (sb.flags = 0) = ~Sealed
    /\ Sealed =>
          /\ aead_ok(opts.aead_key, derive_nonce(opts.key_salt, RegionManifest, 0),
                     AdLabel.manifest, ReadAt(out_f, HEADER_LEN, sb.manifest_len))
          /\ aead_ok(opts.aead_key, derive_nonce(opts.key_salt, RegionChunkTable, 0),
                     AdLabel.chunktab,
                     ReadAt(out_f, sb.chunk_table_off, sb.data_off - sb.chunk_table_off))
          /\ \A j \in 1..Len(entries) :
                aead_ok(opts.aead_key,
                        derive_nonce(opts.key_salt, RegionChunkData, j - 1),
                        AdLabel.chunk,
                        ReadAt(out_f, entries[j].data_off, entries[j].c_size))

\* C25: the layout computed before writing matches the bytes written. In
\* the data phase the file ends exactly where the next entry starts; in the
\* finished archive chunk_table_off = 48 + manifest_len, data_off =
\* chunk_table_off + 32 * chunk_count (+16 sealed), the entries are
\* contiguous from data_off and do not overlap, c_size is the length of what
\* was written for the chunk, the tail begins where the last chunk ends, and
\* FLAG_ENCRYPTED is set exactly when a key was given, the manifest, the
\* table and every chunk then being sealed.
C25_LayoutMatches ==
    /\ pc \in {"data", "super"} => Len(out_f) = WrittenEnd(w.i)
    /\ Packed =>
          /\ TableOnDisk(SuperblockRead(out_f)) = w.h_chunktab
          /\ LayoutOk(SuperblockRead(out_f),
                      read_table(TableOnDisk(SuperblockRead(out_f)),
                                 SuperblockRead(out_f).chunk_count))

\* a sealed archive of two entries or more
C25_Witness ==
    /\ Packed
    /\ Sealed
    /\ Len(w.chunk_entries) >= 2
    /\ w.chunk_entries[2].data_off = w.data_off + w.chunk_entries[1].c_size
    /\ Len(out_f) - TAIL_LEN = WrittenEnd(Len(w.chunk_entries))

\* ------------------------------------------------------------------------
\* Chunk ids and the scan of the planned files
\* ------------------------------------------------------------------------
\* the ChunkRefs of the manifest in scan order: files in manifest order,
\* each file's references in byte order
RECURSIVE ScanRefs(_)
ScanRefs(i) ==
    IF i > Len(w.manifest.files) THEN <<>>
    ELSE [k \in 1..Len(w.manifest.files[i].chunk_refs) |->
             [id |-> w.manifest.files[i].chunk_refs[k].id, file |-> i, k |-> k]]
         \o ScanRefs(i + 1)

\* the position in scan of the first reference to id
FirstAt(scan, id) ==
    CHOOSE n \in 1..Len(scan) :
        scan[n].id = id /\ \A m \in 1..(n - 1) : scan[m].id # id

\* the plan of entry id is the chunk at position n of the scan
PlanIsChunkAt(id, at) ==
    /\ w.plans[id + 1].src = files[at.file]
    /\ w.plans[id + 1].off = file_plans[at.file].chunks[at.k].file_off
    /\ w.plans[id + 1].len = file_plans[at.file].chunks[at.k].u_size
    /\ EntryChunkBytes(id + 1) = PlannedChunkBytes(at.file, at.k)

IdsByFirstAppearance(scan) ==
    /\ \A n \in 1..Len(scan) : scan[n].id \in 0..(Len(w.chunk_entries) - 1)
    /\ \A id \in 0..(Len(w.chunk_entries) - 1) :
          /\ \E n \in 1..Len(scan) : scan[n].id = id
          /\ PlanIsChunkAt(id, scan[FirstAt(scan, id)])
    /\ \A i, j \in 0..(Len(w.chunk_entries) - 1) :
          i < j => FirstAt(scan, i) < FirstAt(scan, j)

\* C26: chunk ids follow first appearance. The ids are 0..chunk_count-1,
\* each referenced by some ChunkRef; files are scanned in sorted path order
\* and, for ids i < j, the first reference to i comes before the first
\* reference to j in that scan, whatever the order the planning tasks
\* finished in; entry i is planned from, and in the finished archive holds,
\* the content whose first occurrence received id i.
C26_IdsFirstAppearance ==
    /\ \A i \in planned : file_plans[i].path = files[i]
    /\ \A i, j \in 1..Len(files) : i < j => PathLess(files[i], files[j])
    /\ Planned =>
          /\ Len(w.manifest.files) = Len(files)
          /\ \A i \in 1..Len(files) :
                w.manifest.files[i].path = rel_display(files[i], inputs)
          /\ w.chunk_count = Len(w.chunk_entries)
          /\ IdsByFirstAppearance(ScanRefs(1))
    /\ Packed =>
          \A j \in 1..Len(w.chunk_entries) :
              ReadAt(out_f, w.chunk_entries[j].data_off, w.chunk_entries[j].c_size)
                 = ChunkWritten(j)

\* two files, the second one repeating the first chunk of the first and
\* bringing the last new one
C26_Witness ==
    /\ Packed
    /\ Len(files) = 2
    /\ Len(w.chunk_entries) >= 2
    /\ \E k \in 1..Len(w.manifest.files[2].chunk_refs) :
          w.manifest.files[2].chunk_refs[k].id = 0
    /\ \E k \in 1..Len(w.manifest.files[2].chunk_refs) :
          w.manifest.files[2].chunk_refs[k].id = Len(w.chunk_entries) - 1
    /\ \A k \in 1..Len(w.manifest.files[1].chunk_refs) :
          w.manifest.files[1].chunk_refs[k].id < Len(w.chunk_entries) - 1

\* ------------------------------------------------------------------------
\* The chunks of one file
\* ------------------------------------------------------------------------
\* the sum of u_size over the first k records of xs
RECURSIVE SumBefore(_, _)
SumBefore(xs, k) == IF k = 0 THEN 0 ELSE xs[k].u_size + SumBefore(xs, k - 1)

\* the chunk records of plan fp partition content v
Partitions(fp, v) ==
    /\ \A k \in 1..Len(fp.chunks) :
          /\ fp.chunks[k].u_size > 0
          /\ fp.chunks[k].file_off = SumBefore(fp.chunks, k - 1)
          /\ fp.chunks[k].hash =
                Blake3(Bytes(SubSeq(v, fp.chunks[k].file_off + 1,
                                    fp.chunks[k].file_off + fp.chunks[k].u_size)))
    /\ SumBefore(fp.chunks, Len(fp.chunks)) = fp.u_size
    /\ fp.u_size = Len(v)

\* the manifest entry fe of plan fp
RefsMatch(fe, fp) ==
    /\ fe.u_size = fp.u_size
    /\ Len(fe.chunk_refs) = Len(fp.chunks)
    /\ \A k \in 1..Len(fp.chunks) : fe.chunk_refs[k].u_size = fp.chunks[k].u_size
    /\ SumBefore(fe.chunk_refs, Len(fe.chunk_refs)) = fe.u_size

\* what the write phase reads for entry id is what planning hashed at the
\* chunk's first occurrence, at position at of the scan
RereadIsHashed(id, at) ==
    /\ w.plans[id + 1].off = file_plans[at.file].chunks[at.k].file_off
    /\ w.plans[id + 1].len = file_plans[at.file].chunks[at.k].u_size
    /\ w.plans[id + 1].off + w.plans[id + 1].len
          <= Len(srcFiles[w.plans[id + 1].src].content)
    /\ Blake3(Bytes(EntryChunkBytes(id + 1))) = file_plans[at.file].chunks[at.k].hash

RereadAll(scan) ==
    \A id \in 0..(Len(w.chunk_entries) - 1) :
        RereadIsHashed(id, scan[FirstAt(scan, id)])

\* C27: chunks partition each file. The chunk records of every planned file
\* are consecutive and cover it: file_off of chunk k is the sum of u_size
\* of the chunks before it, every u_size is positive, the u_size of the
\* file's ChunkRefs sum to FileEntry.u_size and to the file's length; and
\* the range the write phase re-reads for a first-occurrence chunk is the
\* range hashed for it in planning.
C27_ChunksPartition ==
    /\ \A i \in planned : Partitions(file_plans[i], srcFiles[files[i]].content)
    /\ Planned =>
          /\ \A i \in 1..Len(files) : RefsMatch(w.manifest.files[i], file_plans[i])
          /\ RereadAll(ScanRefs(1))

\* a file of several chunks next to another file, packed
C27_Witness ==
    /\ Packed
    /\ Len(files) = 2
    /\ \E i \in 1..2 :
          /\ Len(file_plans[i].chunks) >= 2
          /\ file_plans[i].chunks[2].file_off = file_plans[i].chunks[1].u_size
          /\ file_plans[i].u_size = Len(srcFiles[files[i]].content)

\* ------------------------------------------------------------------------
\* A whole-file reader over an archive whose chunk table has more entries
\* than a FileReader's chunk ids can tell apart: one file of WideContent is
\* packed, opened and read to its end.
\* ------------------------------------------------------------------------
\* five distinct chunks under the chunker: 1 | 0 1 | 0 0 1 | 0 0 0 | 0
WideContent == <<1, 0, 1, 0, 0, 1, 0, 0, 0, 0>>
WideContents == {SubSeq(WideContent, 1, n) : n \in 1..Len(WideContent)}

InitWide ==
    /\ InitSide({PlainMode})
    /\ inputs = <<RootPath>>
    /\ \E c \in WideContents :
          /\ srcFiles = MkFiles({RelA}, [r \in {RelA} |-> c], 5)
          /\ srcDirs = MkDirs({RelA}, 5)
    /\ opts \in {NoOpts} \cup SomeOpts({FALSE}, {0}, {1})
    /\ now = 1
    /\ pc = "start"
    /\ files = <<>>
    /\ dirs = <<>>
    /\ file_plans = <<>>
    /\ planned = {}
    /\ w = NoLayout
    /\ out_f = <<>>
    /\ prev_out = <<>>
    /\ fs = EmptyFs
    /\ extractRes = "none"
    /\ verifyRes = "none"
    /\ tamper = 0
    /\ InitView

NextWide ==
    \/ PackStep
    \/ Open
    \/ OpenReader(RelA)
    \/ \E k \in RangeBufs : ReadBuf(k)

SpecWide == InitWide /\ [][NextWide]_vars

\* the decoded content of chunk-table entry id of the open archive
EntryContent(id) ==
    LET Plain(ce, bytes) == IF arx.enc THEN aead_plain(bytes) ELSE bytes
        Of(ce) == DecodeInto(ce.codec, Plain(ce, ReadAt(out_f, ce.data_off, ce.c_size)),
                             ce.u_size).plain
    IN  Of(arx.table[id + 1])

\* the decoded contents of the entries refs name, in the order of refs
RECURSIVE RefsContent(_, _)
RefsContent(refs, j) ==
    IF j > Len(refs) THEN <<>>
    ELSE EntryContent(refs[j].id) \o RefsContent(refs, j + 1)

\* the FileEntry of path in the open archive
EntryOf(path) ==
    arx.manifest.files[CHOOSE i \in 1..Len(arx.manifest.files) :
                           arx.manifest.files[i].path = path]

\* C28: the whole-file reader of a path yields, up to end of stream, the
\* decoded contents of the chunk-table entries the file's ChunkRefs name
\* by their full 64-bit ids, in order, and so exactly u_size bytes of the
\* file; no id is truncated on the way.
C28_FullIds ==
    (rd.kind = "file" /\ rd.status = "eof")
        => /\ rd.out = RefsContent(EntryOf(rd.path).chunk_refs, 1)
           /\ Len(rd.out) = EntryOf(rd.path).u_size

\* what holds: a file whose ids all lie below the width of the reader's ids
\* is read as its entries say
C28_NarrowIds ==
    (/\ rd.kind = "file" /\ rd.status = "eof"
     /\ \A j \in 1..Len(EntryOf(rd.path).chunk_refs) :
            EntryOf(rd.path).chunk_refs[j].id < U32Wrap)
        => /\ rd.out = RefsContent(EntryOf(rd.path).chunk_refs, 1)
           /\ rd.out = Bytes(srcFiles[PathJoin(RootPath, RelA)].content)

\* a file with an id at the width of the reader's ids was read to its end
C28_WideRead ==
    /\ rd.kind = "file" /\ rd.status = "eof"
    /\ \E j \in 1..Len(EntryOf(rd.path).chunk_refs) :
           EntryOf(rd.path).chunk_refs[j].id >= U32Wrap

\* ------------------------------------------------------------------------
\* The nonces of a sealed container
\* ------------------------------------------------------------------------
\* the tag cell of a sealed region: it binds key, nonce, ad and plaintext
TagCell(ct) == ct[Len(ct) - TAG_LEN + 1]
\* the nonce and the associated data a sealed region was sealed under
NonceOfSealed(ct) == SubSeq(TagCell(ct), 5, 4 + TagCell(ct)[4])
AdOfSealed(ct) ==
    LET Of(cell, n) == SubSeq(cell, 6 + n, 5 + n + cell[5 + n])
    IN  Of(TagCell(ct), TagCell(ct)[4])

\* the sealed regions of the written archive with the region id, counter and
\* label the format gives each: manifest, chunk table, then entry j with
\* counter j - 1
SealedRegions ==
    <<[region |-> RegionManifest, counter |-> 0, ad |-> AdLabel.manifest,
       bytes |-> ReadAt(out_f, HEADER_LEN, w.chunk_table_off - HEADER_LEN)],
      [region |-> RegionChunkTable, counter |-> 0, ad |-> AdLabel.chunktab,
       bytes |-> ReadAt(out_f, w.chunk_table_off, w.data_off - w.chunk_table_off)]>>
    \o [j \in 1..Len(w.chunk_entries) |->
          [region |-> RegionChunkData, counter |-> j - 1, ad |-> AdLabel.chunk,
           bytes |-> ReadAt(out_f, w.chunk_entries[j].data_off,
                            w.chunk_entries[j].c_size)]]

\* a sealed archive as pack wrote it, read with the key it was sealed with
HonestSealed == Packed /\ Sealed /\ forged = NotForged /\ tamper = 0

\* C29: in a sealed container every sealed region carries the nonce of its
\* own (region, counter) input, (Manifest, 0), (ChunkTable, 0) and
\* (ChunkData, id), and its own label; no two regions share a nonce; and
\* list, extract, verify, Opened::open and the FileReader, which
\* authenticate each region under the nonce and label they derive, all
\* accept the regions the writer sealed.
C29_NoncesAgreed ==
    HonestSealed =>
        /\ \A i \in 1..Len(SealedRegions) :
              /\ NonceOfSealed(SealedRegions[i].bytes)
                    = derive_nonce(opts.key_salt, SealedRegions[i].region,
                                   SealedRegions[i].counter)
              /\ AdOfSealed(SealedRegions[i].bytes) = SealedRegions[i].ad
        /\ \A i, j \in 1..Len(SealedRegions) :
              i # j => NonceOfSealed(SealedRegions[i].bytes)
                          # NonceOfSealed(SealedRegions[j].bytes)
        /\ listRes \in {"none", "ok"}
        /\ openRes \in {"none", "ok"}
        /\ extractRes \in {"none", "ok"}
        /\ verifyRes \in {"none", "ok"}
        /\ rd.status \in {"none", "open", "eof"}

\* a sealed archive with two chunks that every reader has read
C29_Witness ==
    /\ HonestSealed
    /\ Len(w.chunk_entries) >= 2
    /\ listRes = "ok"
    /\ openRes = "ok"
    /\ extractRes = "ok"
    /\ verifyRes = "ok"
    /\ rd.kind = "file"
    /\ rd.status = "eof"
    /\ Len(rd.chunk_ids) >= 2

\* ------------------------------------------------------------------------
\* The totals of the tail
\* ------------------------------------------------------------------------
\* the sum of u_size over all files of the written manifest
FilesTotal == SumBefore(w.manifest.files, Len(w.manifest.files))
\* the sum of u_size over the entries of the chunk table
EntriesTotal == SumBefore(w.chunk_entries, Len(w.chunk_entries))
\* the sum over the entries of the length of the compressed chunk before AEAD
RECURSIVE CompressedTotal(_)
CompressedTotal(k) ==
    IF k = 0 THEN 0
    ELSE Len(CompressPlain(w.chunk_entries[k].codec, Bytes(EntryChunkBytes(k))))
            + CompressedTotal(k - 1)
\* some chunk-table entry is referenced more than once
SharedChunk ==
    \E i, j \in 1..Len(w.manifest.files) :
    \E k \in 1..Len(w.manifest.files[i].chunk_refs) :
    \E l \in 1..Len(w.manifest.files[j].chunk_refs) :
        /\ <<i, k>> # <<j, l>>
        /\ w.manifest.files[i].chunk_refs[k].id = w.manifest.files[j].chunk_refs[l].id

\* C30: the tail's total_u is the total of the uncompressed bytes of the
\* packed input without deduplication, the sum of FileEntry.u_size over all
\* files, also when files share chunks, and total_c is the sum of the
\* chunks' lengths after compression and before AEAD.
C30_TailTotals ==
    Packed =>
        /\ read_tail_at_eof(out_f).ok
        /\ read_tail_at_eof(out_f).total_u = FilesTotal
        /\ read_tail_at_eof(out_f).total_c = CompressedTotal(Len(w.chunk_entries))

\* what holds: total_u is the sum of u_size over the deduplicated entries of
\* the chunk table, which is the sum over the files exactly when no entry is
\* referenced twice; total_c is as stated
C30_DedupTotals ==
    Packed =>
        /\ read_tail_at_eof(out_f).ok
        /\ read_tail_at_eof(out_f).total_u = EntriesTotal
        /\ read_tail_at_eof(out_f).total_c = CompressedTotal(Len(w.chunk_entries))
        /\ (read_tail_at_eof(out_f).total_u = FilesTotal) = ~SharedChunk

\* verify accepts the archive whose total_u is below the sum over the files
C30_VerifiedShared ==
    /\ Packed
    /\ SharedChunk
    /\ verifyRes = "ok"
    /\ read_tail_at_eof(out_f).total_u < FilesTotal

\* ------------------------------------------------------------------------
\* InMemIndex::apply on indexes and records drawn from small sets
\* ------------------------------------------------------------------------
MaxApplies == 2
IxChunk(off) ==
    [loc |-> JKey.Delta, off |-> off, len |-> 1, codec |-> JKey.Store,
     blake3 |-> Blake3(Bytes(<<1>>))]
IxEntry(size, chunks) == [mode |-> FileMode, mtime |-> 5, size |-> size, chunks |-> chunks]
IxByPaths ==
    {<<>>, KeyA :> IxEntry(1, <<IxChunk(0)>>), KeyDB :> IxEntry(0, <<>>),
     (KeyA :> IxEntry(1, <<IxChunk(0)>>)) @@ (KeyDB :> IxEntry(0, <<>>))}
IxPolicies == {DefaultPolicy, [DefaultPolicy EXCEPT !.max_entries = 1]}
IxRests ==
    {[by_chunk |-> bc, policy |-> DefaultPolicy,
      stats |-> [files |-> f, logical_bytes |-> b]] :
        bc \in {<<>>, Blake3(Bytes(<<1>>)) :>
                          [loc |-> JKey.Delta, off |-> 0, len |-> 1, codec |-> JKey.Store]},
        f \in {0, U64Wrap - 1}, b \in {0, U64Wrap - 1}}
IxKeys == {KeyA, KeyDB, KeyB}
IxRecs ==
    {PutRec(p, FileMode, 5, size, chunks) :
        p \in {KeyA, KeyDB}, size \in {0, 1}, chunks \in {<<>>, <<IxChunk(4)>>}}
    \cup {DeleteRec(p) : p \in IxKeys}
    \cup {RenameRec(from, to) : from \in IxKeys, to \in {KeyA, KeyB}}
    \cup {SetPolicyRec(pol) : pol \in IxPolicies}
    \cup {NoteRec(<<110>>)}

InitIndex ==
    /\ InitIdle
    /\ logFile = [exists |-> FALSE, data |-> <<>>]
    /\ deltaFile = [exists |-> FALSE, data |-> <<>>]
    /\ jh = [open |-> FALSE, enc |-> PlainMode, flags |-> 0, salt |-> 0, pos |-> 0]
    /\ dh = jh
    /\ index \in IxByPaths
    /\ ixrest \in IxRests
    /\ inflight = NoFlight
    /\ appended = <<>>
    /\ lastOp = "init"
    /\ iterRes = [done |-> FALSE, items |-> <<>>]
    /\ cut = 0
    /\ syncRes = "none"

\* index.apply(&rec). Where a counter overflows, the build with overflow
\* checks panics at that `+=`, after the statements before it
IxApply(rec) ==
    /\ lastOp # "panic"
    /\ Len(appended) < MaxApplies
    /\ \E outcome \in {"apply"} \cup (IF ApplyOverflows(ixrest, rec) THEN {"panic"} ELSE {}) :
           /\ lastOp' = outcome
           /\ index' = IndexApply(index, rec)
           /\ ixrest' =
                 IF outcome = "apply" THEN RestApply(ixrest, rec)
                 ELSE [by_chunk |-> InsertChunks(ixrest.by_chunk, rec.chunks, 1),
                       policy |-> ixrest.policy,
                       stats |-> IF ixrest.stats.files + 1 >= U64Wrap THEN ixrest.stats
                                 ELSE [ixrest.stats EXCEPT !.files = @ + 1]]
    /\ appended' = Append(appended, rec)
    /\ UNCHANGED <<logFile, deltaFile, jh, dh, iterRes, cut, syncRes, inflight>>
    /\ UNCHANGED <<packVars, readVars>>

NextIndex == \E rec \in IxRecs : IxApply(rec)

SpecIndex == InitIndex /\ [][NextIndex]_vars

\* by_path is the same away from the paths in S
SameExcept(S) ==
    /\ (DOMAIN index') \ S = (DOMAIN index) \ S
    /\ \A q \in (DOMAIN index) \ S : index'[q] = index[q]

\* what apply(rec) changes, as an action
ApplyFrame(rec) ==
    /\ rec.kind = JKey.Rename /\ rec.path \notin DOMAIN index => index' = index
    /\ rec.kind = JKey.Rename /\ rec.path \in DOMAIN index =>
          /\ rec.to \in DOMAIN index'
          /\ index'[rec.to] = index[rec.path]
          /\ SameExcept({rec.path, rec.to})
    /\ rec.kind = JKey.Delete =>
          /\ rec.path \notin DOMAIN index'
          /\ SameExcept({rec.path})
          /\ rec.path \notin DOMAIN index => index' = index
    /\ rec.kind = KindNote => index' = index /\ ixrest' = ixrest
    /\ rec.kind = KindSetPolicy =>
          /\ index' = index
          /\ ixrest' = [ixrest EXCEPT !.policy = rec.policy]
    /\ rec.kind \in {JKey.Delete, JKey.Rename, KindSetPolicy, KindNote} =>
          /\ ixrest'.by_chunk = ixrest.by_chunk
          /\ ixrest'.stats = ixrest.stats
    /\ rec.kind = JKey.Put =>
          /\ rec.path \in DOMAIN index'
          /\ index'[rec.path] = IxEntry(rec.size, rec.chunks)
          /\ SameExcept({rec.path})

\* C31: apply never fails and changes only what the record names: a Rename
\* with from absent changes nothing, with from present it leaves to mapped
\* to from's former entry and from absent; a Delete of an absent path is a
\* no-op; Note changes nothing; SetPolicy changes only the policy; Delete,
\* Rename, SetPolicy and Note never change by_chunk or stats.
C31_ApplyTotalFrame ==
    /\ [](lastOp # "panic")
    /\ [][\A rec \in IxRecs :
            IxApply(rec) =>
                /\ ApplyFrame(rec)
                /\ rec.kind = JKey.Rename /\ rec.path \in DOMAIN index =>
                      rec.path \notin DOMAIN index']_vars

\* what holds: whenever apply returns, the effect is the one stated, where
\* from is absent after a Rename unless from = to
C31_FrameWhenReturned ==
    [][\A rec \in IxRecs :
          IxApply(rec) /\ lastOp' = "apply" =>
              /\ ApplyFrame(rec)
              /\ rec.kind = JKey.Rename /\ rec.path \in DOMAIN index /\ rec.path # rec.to =>
                    rec.path \notin DOMAIN index']_vars

\* what holds: apply returns whenever no counter of stats overflows
C31_TotalWithoutOverflow ==
    [][\A rec \in IxRecs :
          IxApply(rec) /\ ~ApplyOverflows(ixrest, rec) => lastOp' = "apply"]_vars

\* after a Put, a Rename has replaced the entry at to by from's entry and
\* removed from
C31_RenameReplaced ==
    /\ lastOp = "apply"
    /\ Len(appended) = 2
    /\ appended[2] = RenameRec(KeyDB, KeyA)
    /\ appended[1].kind = JKey.Put
    /\ DOMAIN index = {KeyA}
    /\ index[KeyA] = IxEntry(0, <<>>)

\* apply panicked
C31_Panicked == lastOp = "panic"

\* ------------------------------------------------------------------------
\* The delta store is append-only
\* ------------------------------------------------------------------------
\* the file before the step is a proper prefix of the file after it
Extended ==
    /\ Len(deltaFile'.data) > Len(deltaFile.data)
    /\ SubSeq(deltaFile'.data, 1, Len(deltaFile.data)) = deltaFile.data

\* C32: under any interleaving of append_frame and read_frame on one store,
\* append_frame writes at the end of the file and changes no byte of an
\* earlier frame, so every frame appended before still reads back its
\* plaintext afterwards.
C32_AppendOnly ==
    [][\A plain \in FramePlains :
          DAppend(plain) =>
              /\ Extended
              /\ \A k \in 1..Len(appended) : ReadsBack(k)']_vars

\* what holds: an append that no read_frame preceded since the last append
\* or open extends the file and keeps every earlier frame
C32_AppendAfterAppend ==
    [][\A plain \in FramePlains :
          (lastOp # "dread" /\ dh.pos = Len(deltaFile.data) /\ DAppend(plain)) =>
              /\ Extended
              /\ \A k \in 1..Len(appended) : ReadsBack(k)']_vars

\* what holds: read_frame changes no byte of the file
C32_ReadKeepsFile ==
    [][\A k \in 1..MaxFrames : DRead(k) => deltaFile' = deltaFile]_vars

\* an append after the read of an earlier frame has overwritten a later one
C32_Overwritten ==
    /\ lastOp = "dappend"
    /\ Len(appended) = 3
    /\ ~ReadsBack(2)

\* ------------------------------------------------------------------------
\* The journal with iterations that stop early and appends that are cut
\* short by the end of the process
\* ------------------------------------------------------------------------
\* how many bytes of a record a killed append leaves in the file
TornLens == {1, 3}

\* the first n items of Journal::iter() and the position after them
RECURSIVE IterSome(_, _, _, _, _)
IterSome(f, pos, enc, salt, n) ==
    LET Of(r) ==
            IF n = 0 \/ r.res = "none" THEN [items |-> <<>>, pos |-> pos]
            ELSE [items |-> <<[ok |-> r.res = "some"]>>
                              \o IterSome(f, r.pos, enc, salt, n - 1).items,
                  pos |-> IterSome(f, r.pos, enc, salt, n - 1).pos]
    IN  Of(read_next_record(f, pos, enc, salt))

\* journal.iter()? dropped after n calls of next(), before the end
JIterSome(n) ==
    /\ jh.open
    /\ n < Len(JournalIterAll(logFile, jh).items)
    /\ \E it \in {IterSome(logFile.data, LOG_HEADER_LEN, jh.enc, jh.salt, n)} :
           jh' = [jh EXCEPT !.pos = it.pos]
    /\ iterRes' = [done |-> FALSE, items |-> <<>>]
    /\ lastOp' = "itersome"
    /\ UNCHANGED <<logFile, deltaFile, dh, index, appended, cut, syncRes, ixrest, inflight>>
    /\ UNCHANGED <<packVars, readVars>>

\* Journal::append(rec) in a process that ends after n bytes of the record
\* reached the file: append does not return. It happens once in a behaviour
JAppendTorn(rec, n) ==
    /\ jh.open
    /\ cut = 0
    /\ Len(appended) < MaxAppends
    /\ jh.pos = Len(logFile.data)
    /\ forged = NotForged
    /\ \E r \in {JournalAppend(logFile, jh, rec)} :
           /\ n < Len(r.file.data) - Len(logFile.data)
           /\ logFile' = [logFile EXCEPT !.data = SubSeq(r.file.data, 1, Len(@) + n)]
    /\ jh' = [jh EXCEPT !.open = FALSE]
    /\ forged' = [what |-> "torn", at |-> "journal"]
    /\ iterRes' = [done |-> FALSE, items |-> <<>>]
    /\ lastOp' = "torn"
    /\ UNCHANGED <<deltaFile, dh, index, appended, cut, syncRes, ixrest, inflight>>
    /\ UNCHANGED <<fs, extractRes, verifyRes, tamper, listRes, openRes, arx, rd, thr>>
    /\ UNCHANGED packVars

NextReach ==
    \/ JOpen(jh.enc)
    \/ \E rec \in JRecords : JAppend(rec)
    \/ JClose
    \/ JIterate
    \/ \E n \in 0..(MaxAppends - 1) : JIterSome(n)
    \/ \E rec \in JRecords : \E n \in TornLens : JAppendTorn(rec, n)

SpecReach == InitJournal /\ [][NextReach]_vars

\* a complete iteration of the file as it is, by this handle or one opened
\* later in the same mode, yields the appended records in append order
ReachableIn(file, h, recs) ==
    \E it \in {JournalIterAll(file, h)} :
        ItemsOk(it.items) /\ ItemRecs(it.items) = recs
Reachable == ReachableIn(logFile, jh, appended)

\* the file ends where its last complete record ends
CleanEnd == Len(logFile.data) = LOG_HEADER_LEN + FramedSum(appended, 1, jh.enc)

\* C33: every record whose append returned Ok is yielded, in append order,
\* by every later complete iteration and after a reopen, also when the
\* append follows an iteration abandoned before its end or the open of a
\* journal that ends in a partial record.
C33_RecordsReachable == logFile.exists => Reachable

\* what holds: an append at the end of a file that ends with a complete
\* record keeps every record reachable
C33_AppendAtCleanEnd ==
    [][\A rec \in JRecords :
          (JAppend(rec) /\ jh.pos = Len(logFile.data) /\ CleanEnd /\ Reachable)
              => (ReachableIn(logFile', jh', appended') /\ CleanEnd')]_vars

\* an append after an abandoned iteration has replaced an earlier record
C33_Overwritten ==
    /\ lastOp = "append"
    /\ Len(appended) = 2
    /\ forged = NotForged
    /\ ~Reachable

\* an append after the open of a journal with a partial record at its end
\* is behind that partial record
C33_BehindPartial ==
    /\ lastOp = "append"
    /\ forged.what = "torn"
    /\ Len(logFile.data) > LOG_HEADER_LEN + FramedSum(appended, 1, jh.enc)
    /\ ~Reachable

\* ------------------------------------------------------------------------
\* The nonces of the sealed journal
\* ------------------------------------------------------------------------
\* the nonce input (payload_off, cipher_len) append(rec) is about to use
SealLen(rec) == Len(EncRecord(rec)) + 16
SealOff(rec) == jh.pos + uvarint_len(SealLen(rec))

\* the file holds, at the place append(rec) is about to write, a record
\* sealed under the same key and nonce with another plaintext
SealedThere(file, h, off, len, plain) ==
    /\ CanRead(file.data, off, len)
    /\ aead_ok(h.enc.key, sidecar_nonce(LabelLog, h.salt, off, len), <<>>,
               ReadAt(file.data, off, len))
    /\ aead_plain(ReadAt(file.data, off, len)) # plain
NonceReused(rec) ==
    SealedThere(logFile, jh, SealOff(rec), SealLen(rec), EncRecord(rec))

\* C34: under one key and salt no two different plaintexts are sealed with
\* the same nonce input (label, salt, payload_off, cipher_len), across any
\* sequence of opens, appends and iterations, and the payload offsets of the
\* sealed records strictly increase: each lies behind all that was written.
C34_NoncesFresh ==
    [][\A rec \in JRecords :
          (jh.enc.aead /\ JAppend(rec)) =>
              /\ ~NonceReused(rec)
              /\ SealOff(rec) > Len(logFile.data)]_vars

\* what holds: an append with the position at the end of the file uses a
\* payload offset behind everything written, hence a fresh nonce
C34_FreshAtEnd ==
    [][\A rec \in JRecords :
          (jh.enc.aead /\ jh.pos = Len(logFile.data) /\ JAppend(rec)) =>
              /\ ~NonceReused(rec)
              /\ SealOff(rec) > Len(logFile.data)]_vars

\* two different records of the same length were sealed at the same offset:
\* the second replaced the first
C34_Reused ==
    /\ lastOp = "append"
    /\ jh.enc.aead
    /\ Len(appended) = 2
    /\ appended[1] # appended[2]
    /\ SealLen(appended[1]) = SealLen(appended[2])
    /\ Len(logFile.data) = LOG_HEADER_LEN + FramedLen(appended[2], jh.enc)

\* ------------------------------------------------------------------------
\* The journal opened in either mode, whatever its header says
\* ------------------------------------------------------------------------
NextModes ==
    \/ \E enc \in SideModes : JOpen(enc)
    \/ \E rec \in JRecords : JAppend(rec)
    \/ JClose
    \/ JIterate

SpecModes == InitJournal /\ [][NextModes]_vars

\* the record payloads of the file from offset pos on, as the length
\* prefixes delimit them
RECURSIVE PayloadsFrom(_, _)
PayloadsFrom(f, pos) ==
    LET Of(g) ==
            IF g.res # "some" \/ ~CanRead(f, g.pos, g.v) THEN <<>>
            ELSE <<ReadAt(f, g.pos, g.v)>> \o PayloadsFrom(f, g.pos + g.v)
    IN  Of(get_uvarint(f, pos))

\* the payload ends in an AEAD tag
IsSealedPayload(buf) ==
    /\ Len(buf) >= TAG_LEN
    /\ buf[Len(buf) - TAG_LEN + 1][1] = TagMark

\* every record of the file is of the kind its header's flag says
FlagAgrees(file) ==
    Len(file.data) >= LOG_HEADER_LEN =>
        \A i \in 1..Len(PayloadsFrom(file.data, LOG_HEADER_LEN)) :
            IsSealedPayload(PayloadsFrom(file.data, LOG_HEADER_LEN)[i])
                = (CellVal(file.data[10]) % 2 = 1)

\* C35: at all times the records of a journal file are plain when its
\* FLAG_AEAD bit is clear and sealed when it is set; opening a journal in a
\* mode other than its header's never leads to records of the other kind
\* being appended, nor to a handle that passes plain records to AEAD
\* decryption.
C35_FlagAgreesWithRecords ==
    /\ logFile.exists => FlagAgrees(logFile)
    /\ (jh.open /\ jh.enc.aead) => SealedOnDisk

\* what holds: a journal whose header says AEAD holds sealed records only,
\* and no handle without a key is open on it
C35_SealedStaysSealed ==
    SealedOnDisk =>
        /\ FlagAgrees(logFile)
        /\ jh.open => jh.enc.aead

\* what holds: a journal only ever opened in the mode of its header agrees
\* with its header
C35_OwnModeAgrees ==
    [][\A rec \in JRecords :
          (JAppend(rec) /\ jh.enc.aead = SealedOnDisk /\ FlagAgrees(logFile))
              => FlagAgrees(logFile')]_vars

\* a plain journal was opened with a key, a sealed record was appended to
\* it, and the iteration of the plain record before it failed
C35_MixedJournal ==
    /\ ~SealedOnDisk
    /\ jh.enc.aead
    /\ Len(appended) = 2
    /\ ~FlagAgrees(logFile)
    /\ iterRes.done
    /\ ~ItemsOk(iterRes.items)

\* ------------------------------------------------------------------------
\* The steps of put_file, delete_path and rename, one at a time, with a
\* write that fails and a process that ends between two steps
\* ------------------------------------------------------------------------
MaxMuts == 3
\* how many bytes reach the file before a write fails
FailLens == {1}

CanMutate ==
    /\ jh.open
    /\ syncRes = "none"
    /\ inflight.step = "none"
    /\ Len(appended) < MaxMuts

\* put_file up to `self.delta.append_frame(&frame)?` returning Ok, and the
\* record built from the returned (off, len)
PutFrame(content, dst_path) ==
    /\ CanMutate
    /\ \E fr \in {append_frame(deltaFile, dh, Bytes(content))} :
           /\ deltaFile' = fr.file
           /\ dh' = fr.h
           /\ inflight' =
                 [step |-> "framed",
                  rec |-> PutRec(dst_path, FileMode, 5, Len(content),
                                 <<[loc |-> JKey.Delta, off |-> fr.off, len |-> fr.len,
                                    codec |-> JKey.Store,
                                    blake3 |-> Blake3(Bytes(content))]>>)]
    /\ lastOp' = "frame"
    /\ UNCHANGED <<logFile, jh, index, appended, iterRes, cut, syncRes, ixrest>>
    /\ UNCHANGED <<packVars, readVars>>

\* put_file when append_frame returns Err after n bytes reached the file
PutFrameFails(content, n) ==
    /\ CanMutate
    /\ forged = NotForged
    /\ \E fr \in {append_frame(deltaFile, dh, Bytes(content))} :
           /\ n < Len(fr.file.data) - dh.pos
           /\ deltaFile' = [deltaFile EXCEPT !.data =
                               WriteAt(@, dh.pos,
                                       SubSeq(fr.file.data, dh.pos + 1, dh.pos + n))]
           /\ dh' = [dh EXCEPT !.pos = @ + n]
    /\ forged' = [what |-> "ioerr", at |-> "delta"]
    /\ lastOp' = "err"
    /\ UNCHANGED <<logFile, jh, index, appended, iterRes, cut, syncRes, ixrest, inflight>>
    /\ UNCHANGED <<fs, extractRes, verifyRes, tamper, listRes, openRes, arx, rd, thr>>
    /\ UNCHANGED packVars

\* delete_path and rename up to the record they build
MutBegin(rec) ==
    /\ CanMutate
    /\ inflight' = [step |-> "framed", rec |-> rec]
    /\ lastOp' = "begin"
    /\ UNCHANGED <<logFile, deltaFile, jh, dh, index, appended, iterRes, cut, syncRes,
                   ixrest>>
    /\ UNCHANGED <<packVars, readVars>>

\* `self.journal.append(&rec)?` returning Ok
LogStep ==
    /\ jh.open
    /\ inflight.step = "framed"
    /\ \E ja \in {JournalAppend(logFile, jh, inflight.rec)} :
           /\ logFile' = ja.file
           /\ jh' = ja.h
    /\ appended' = Append(appended, inflight.rec)
    /\ inflight' = [inflight EXCEPT !.step = "logged"]
    /\ lastOp' = "log"
    /\ UNCHANGED <<deltaFile, dh, index, iterRes, cut, syncRes, ixrest>>
    /\ UNCHANGED <<packVars, readVars>>

\* `self.journal.append(&rec)?` returning Err after n bytes reached the file
LogFails(n) ==
    /\ jh.open
    /\ inflight.step = "framed"
    /\ forged = NotForged
    /\ \E ja \in {JournalAppend(logFile, jh, inflight.rec)} :
           /\ n < Len(ja.file.data) - jh.pos
           /\ logFile' = [logFile EXCEPT !.data =
                             WriteAt(@, jh.pos,
                                     SubSeq(ja.file.data, jh.pos + 1, jh.pos + n))]
           /\ jh' = [jh EXCEPT !.pos = @ + n]
    /\ inflight' = NoFlight
    /\ forged' = [what |-> "ioerr", at |-> "journal"]
    /\ lastOp' = "err"
    /\ UNCHANGED <<deltaFile, dh, index, appended, iterRes, cut, syncRes, ixrest>>
    /\ UNCHANGED <<fs, extractRes, verifyRes, tamper, listRes, openRes, arx, rd, thr>>
    /\ UNCHANGED packVars

\* `self.index.apply(&rec)` and the return of Ok(())
ApplyStep ==
    /\ jh.open
    /\ inflight.step = "logged"
    /\ index' = IndexApply(index, inflight.rec)
    /\ ixrest' = RestApply(ixrest, inflight.rec)
    /\ inflight' = NoFlight
    /\ lastOp' = "applied"
    /\ UNCHANGED <<logFile, deltaFile, jh, dh, appended, iterRes, cut, syncRes>>
    /\ UNCHANGED <<packVars, readVars>>

\* the process ends, between two steps or between two operations
Crash ==
    /\ jh.open
    /\ forged = NotForged
    /\ jh' = [jh EXCEPT !.open = FALSE]
    /\ dh' = [dh EXCEPT !.open = FALSE]
    /\ inflight' = NoFlight
    /\ forged' = [what |-> "crash", at |-> inflight.step]
    /\ lastOp' = "crash"
    /\ UNCHANGED <<logFile, deltaFile, index, appended, iterRes, cut, syncRes, ixrest>>
    /\ UNCHANGED <<fs, extractRes, verifyRes, tamper, listRes, openRes, arx, rd, thr>>
    /\ UNCHANGED packVars

\* open_reader(path) between two mutations
OrderRead(path) ==
    /\ inflight.step = "none"
    /\ OvRead(path)

NextOrder ==
    \/ CrudOpen
    \/ \E content \in PutContents : \E dst \in {KeyA, KeyDB} : PutFrame(content, dst)
    \/ \E content \in PutContents : \E n \in FailLens : PutFrameFails(content, n)
    \/ \E rec \in {DeleteRec(KeyDB), RenameRec(KeyA, KeyDB)} : MutBegin(rec)
    \/ LogStep
    \/ \E n \in FailLens : LogFails(n)
    \/ ApplyStep
    \/ Crash
    \/ \E d \in {KeyA} : OrderRead(d)

SpecOrder == InitCrud /\ [][NextOrder]_vars

\* the frame record rec refers to is on disk: read_frame returns the bytes
\* whose digest the record carries
FrameOnDisk(rec) ==
    \A k \in 1..Len(rec.chunks) :
        \E r \in {read_frame(deltaFile, StoreNow, rec.chunks[k].off, rec.chunks[k].len)} :
            r.ok /\ Blake3(r.plain) = rec.chunks[k].blake3

\* every Put record a complete iteration of the journal yields refers to a
\* frame that is on disk
PutsFramedIn(file, h) ==
    \E it \in {JournalIterAll(file, h)} :
        \A i \in 1..Len(it.items) :
            (it.items[i].ok /\ it.items[i].rec.kind = JKey.Put)
                => FrameOnDisk(it.items[i].rec)

\* C36: put_file writes the delta frame before it appends the Put record
\* and applies the record to the index only after the append succeeded. At
\* every point, also after a failed write or the end of the process between
\* two steps, every Put record in the journal refers to a frame that is
\* completely on disk; and the index changes only when a logged record is
\* applied (or on open), so a failed delta or journal append of put_file,
\* delete_path or rename leaves it unchanged.
C36_MutationOrder ==
    /\ [](logFile.exists => PutsFramedIn(logFile, jh))
    /\ [](inflight.step = "logged" =>
              /\ appended # <<>>
              /\ appended[Len(appended)] = inflight.rec)
    /\ [][(index' # index \/ ixrest' # ixrest) =>
              \/ ~jh.open /\ jh'.open
              \/ /\ inflight.step = "logged"
                 /\ index' = IndexApply(index, inflight.rec)]_vars

\* the order of the steps: the index changes only on open or when the record
\* that was just appended to the journal is applied, and a failed write or
\* the end of the process leaves it as it was
C36_IndexAfterLog ==
    /\ [](inflight.step = "logged" =>
              /\ appended # <<>>
              /\ appended[Len(appended)] = inflight.rec)
    /\ [][(index' # index \/ ixrest' # ixrest) =>
              \/ ~jh.open /\ jh'.open
              \/ /\ inflight.step = "logged"
                 /\ index' = IndexApply(index, inflight.rec)]_vars

\* the frame of a Put record is on disk while the record is written and
\* applied
C36_FramedWhenLogged ==
    (inflight.step # "none" /\ inflight.rec.kind = JKey.Put) => FrameOnDisk(inflight.rec)

\* a Put record of the journal whose frame a later put_file wrote over
C36_FrameOverwritten ==
    /\ forged = NotForged
    /\ inflight.step = "none"
    /\ logFile.exists
    /\ ~PutsFramedIn(logFile, jh)

\* after the process ended between the frame and the record of a put_file,
\* the archive was reopened and a put_file ran to its end
C36_Witness ==
    /\ forged = [what |-> "crash", at |-> "framed"]
    /\ lastOp = "applied"
    /\ appended # <<>>
    /\ appended[Len(appended)].kind = JKey.Put
    /\ appended[Len(appended)].size = 1
    /\ appended[Len(appended)].path \in DOMAIN index
    /\ appended[Len(appended)].chunks[1].off > 1

\* a journal append of put_file failed after one byte and left the index as
\* it was
C36_FailedAppend ==
    /\ forged = [what |-> "ioerr", at |-> "journal"]
    /\ lastOp = "err"
    /\ Len(logFile.data) = LOG_HEADER_LEN + FramedSum(appended, 1, jh.enc) + 1
    /\ Len(deltaFile.data) > 0

\* ------------------------------------------------------------------------
\* pack with several, nested or repeated input roots
\* ------------------------------------------------------------------------
\* "/s", "/r/d"
RootS == <<ChSlash, 115>>
RootRD == <<ChSlash, 114, ChSlash, 100>>
\* one root; two roots side by side; a root and a directory inside it, in
\* both orders; one root given twice
RootLists ==
    {<<RootPath>>, <<RootPath, RootS>>, <<RootPath, RootRD>>,
     <<RootRD, RootPath>>, <<RootPath, RootPath>>}
\* the host tree: /r/a, /r/d/b and /s/a, or /r/d/b and /s/c only
RootTrees ==
    {{PathJoin(RootPath, RelA), PathJoin(RootPath, RelDB), PathJoin(RootS, RelA)},
     {PathJoin(RootPath, RelDB), PathJoin(RootS, <<99>>)}}

InitRoots ==
    /\ InitSide({PlainMode})
    /\ inputs \in RootLists
    /\ \E T \in RootTrees : \E c \in [T -> {<<>>, <<1>>}] :
          srcFiles = [p \in T |-> [content |-> c[p], mode |-> FileMode, mtime |-> 5]]
    /\ srcDirs = [p \in {RootPath, RootRD, RootS} |-> [mode |-> DirMode, mtime |-> 5]]
    /\ opts \in {NoOpts} \cup SomeOpts({TRUE}, {DefaultMinGain}, {NoKey})
    /\ now = 1
    /\ pc = "start"
    /\ files = <<>>
    /\ dirs = <<>>
    /\ file_plans = <<>>
    /\ planned = {}
    /\ w = NoLayout
    /\ out_f = <<>>
    /\ prev_out = <<>>
    /\ fs = EmptyFs
    /\ extractRes = "none"
    /\ verifyRes = "none"
    /\ tamper = 0
    /\ InitView

NextRoots ==
    \/ PackStep
    \/ Extract

SpecRoots == InitRoots /\ [][NextRoots]_vars

\* the paths of a list of manifest entries are pairwise distinct
PathsDistinct(es) == \A i, j \in 1..Len(es) : i # j => es[i].path # es[j].path
\* ... and in the order of Path's comparison
PathsSorted(es) == \A i \in 1..(Len(es) - 1) : ~PathLess(es[i + 1].path, es[i].path)

\* C37: manifest paths are unique and ordered. In every archive pack wrote,
\* also for several input roots and for nested or repeated roots, the
\* FileEntry paths are pairwise distinct, the DirEntry paths are pairwise
\* distinct, and each list is sorted by the recorded root-relative path, so
\* that extract writes no output path twice.
C37_PathsUniqueSorted ==
    Packed =>
        /\ PathsDistinct(w.manifest.files)
        /\ PathsSorted(w.manifest.files)
        /\ PathsDistinct(w.manifest.dirs)
        /\ PathsSorted(w.manifest.dirs)
        /\ (extractRes = "ok" =>
               Cardinality(DOMAIN fs.files) = Len(w.manifest.files))

\* with one input root the paths of both lists are distinct and sorted, and
\* extract writes as many files as the manifest has entries
C37_OneRoot ==
    (Packed /\ Len(inputs) = 1) =>
        /\ PathsDistinct(w.manifest.files)
        /\ PathsSorted(w.manifest.files)
        /\ PathsDistinct(w.manifest.dirs)
        /\ PathsSorted(w.manifest.dirs)
        /\ (extractRes = "ok" =>
               Cardinality(DOMAIN fs.files) = Len(w.manifest.files))

\* with any roots the entries follow the sorted walk: entry i records
\* rel_display of the i-th walked path, and the walked paths are in order
C37_SortedByWalkedPath ==
    Packed =>
        /\ Len(w.manifest.files) = Len(files)
        /\ \A i \in 1..Len(files) :
              w.manifest.files[i].path = rel_display(files[i], inputs)
        /\ \A i \in 1..(Len(files) - 1) : ~PathLess(files[i + 1], files[i])
        /\ Len(w.manifest.dirs) = Len(dirs)
        /\ \A i \in 1..Len(dirs) : w.manifest.dirs[i].path = rel_display(dirs[i], inputs)
        /\ \A i \in 1..(Len(dirs) - 1) : ~PathLess(dirs[i + 1], dirs[i])

\* two roots side by side that both hold a file "a": the manifest lists
\* "a", "d/b", "a", and extract returned Ok with two files written
C37_SamePathTwice ==
    /\ inputs = <<RootPath, RootS>>
    /\ extractRes = "ok"
    /\ Len(w.manifest.files) = 3
    /\ w.manifest.files[1].path = RelA
    /\ w.manifest.files[3].path = RelA
    /\ Cardinality(DOMAIN fs.files) = 2

\* a root and a directory inside it: the file below both is listed twice
C37_NestedTwice ==
    /\ inputs = <<RootPath, RootRD>>
    /\ Packed
    /\ \E i, j \in 1..Len(w.manifest.files) :
          i # j /\ w.manifest.files[i].path = RelDB /\ w.manifest.files[j].path = RelDB

\* ------------------------------------------------------------------------
\* Containers whose manifest names a chunk the table does not have
\* ------------------------------------------------------------------------
\* the manifest region for manifest m, sealed as pack seals it
ManifestRegion(m) ==
    IF Sealed
    THEN seal_whole(opts.aead_key, derive_nonce(opts.key_salt, RegionManifest, 0),
                    AdLabel.manifest, EncManifest(m))
    ELSE EncManifest(m)

\* the id of ChunkRef k of the first FileEntry is rewritten to id; the
\* region keeps its length, so every other region stays where it is
ForgeRef(k, id) ==
    /\ Untouched
    /\ Len(w.manifest.files) > 0
    /\ k \in 1..Len(w.manifest.files[1].chunk_refs)
    /\ id # w.manifest.files[1].chunk_refs[k].id
    /\ \E bytes \in {ManifestRegion([w.manifest EXCEPT !.files[1].chunk_refs[k].id = id])} :
           /\ Len(bytes) = w.manifest_len
           /\ out_f' = WriteAt(out_f, HEADER_LEN, bytes)
    /\ forged' = [what |-> "ref", at |-> "manifest"]
    /\ UNCHANGED <<inputs, srcFiles, srcDirs, opts, now, pc, files, dirs, file_plans,
                   planned, w, prev_out>>
    /\ UNCHANGED <<fs, extractRes, verifyRes, tamper, listRes, openRes, arx, rd, thr>>
    /\ UNCHANGED sideVars

\* ids past the table: chunk_count and chunk_count + 1
PastTable == {w.chunk_count, w.chunk_count + 1}

NextRefs ==
    \/ PackStep
    \/ \E k \in {1, 2} : \E id \in PastTable : ForgeRef(k, id)
    \/ List
    \/ Open
    \/ Extract
    \/ OpenReader(RelA)
    \/ \E start \in {0, 1} : \E len \in {1} : OpenRange(RelA, start, len)
    \/ \E k \in {CopyBuf} : ReadBuf(k)

SpecRefs == InitForged /\ [][NextRefs]_vars

\* the manifest the readers decode names a chunk id the table does not have
RefPastTable ==
    /\ pc = "done"
    /\ forged.what = "ref"
    /\ \E i \in 1..Len(ReadManifest.files) :
       \E k \in 1..Len(ReadManifest.files[i].chunk_refs) :
           ReadManifest.files[i].chunk_refs[k].id >= SuperblockRead(out_f).chunk_count

\* C38: chunk references are validated before use. On a container whose
\* manifest holds a ChunkRef with id >= chunk_count, list, extract,
\* Opened::chunk_map_for (through open_reader and open_range) and the reads
\* of a reader return an error; none of them ends abnormally by indexing
\* the chunk table out of bounds.
C38_RefsValidated ==
    RefPastTable =>
        /\ listRes \in {"none", "err"}
        /\ extractRes \in {"none", "err"}
        /\ rd.status # "panic"
        /\ (rd.kind # "none" => rd.status = "err")

\* on such a container Opened::open itself returns Ok (it reads no
\* ChunkRef), and no reader returns content: each call that reaches the
\* ChunkRef ends, by an error or abnormally
C38_NoContentFromBadRef ==
    RefPastTable =>
        /\ openRes \in {"none", "ok"}
        /\ listRes \in {"none", "err", "panic"}
        /\ extractRes \in {"none", "err", "panic"}
        /\ (rd.kind # "none" => rd.status \in {"err", "panic"})

\* list, extract and open_reader all ran on the container and ended
\* abnormally
C38_AllPanicked ==
    /\ RefPastTable
    /\ listRes = "panic"
    /\ extractRes = "panic"
    /\ openRes = "ok"
    /\ rd.status = "panic"

\* ------------------------------------------------------------------------
\* sync_to_base on overlay paths that are absolute or climb with ".."
\* ------------------------------------------------------------------------
\* "../x", "//a"
KeyUpX == <<ChDot, ChDot, ChSlash, 120>>
KeySlashSlashA == <<ChSlash, ChSlash, 97>>
ScratchKeys == {KeyA, KeySlashA, KeySlashSlashA, KeyDB, KeyUpX}

NextScratch ==
    \/ CrudOpen
    \/ \E c \in PutContents : \E d \in ScratchKeys : PutFile(c, d)
    \/ \E det \in {TRUE} : \E seal \in BOOLEAN : SyncToBase(det, seal)
    \/ PackStep

SpecScratch == InitCrud /\ [][NextScratch]_vars

\* the scratch directory and the host around it after the loop of
\* sync_to_base over the overlay the sidecars hold
ScratchAfter(log, delta, enc) ==
    LET Of(arc) ==
            IF arc.ok
            THEN Materialize(ScratchFs, arc.by_path, SortKeys(DOMAIN arc.by_path), 1,
                             arc.delta, arc.dh).fs
            ELSE ScratchFs
    IN  Of(open_with_crypto(log, delta, enc))

\* every file of tfs lies below the scratch root
InsideScratch(tfs) ==
    \A loc \in DOMAIN tfs.files : IsPrefixOf(OsComps(RootPath), loc)

\* C39: compaction stays inside its scratch directory. For every overlay
\* path, also an absolute one and one with ".." segments, sync_to_base
\* returns an error or creates the file below its temporary scratch root;
\* it creates or truncates no file outside it.
C39_StaysInScratch ==
    syncRes # "none" => InsideScratch(ScratchAfter(logFile, deltaFile, jh.enc))

\* overlay paths without a ".." segment, absolute ones included, are
\* created below the scratch root
C39_InsideWithoutDotDot ==
    (syncRes # "none" /\ \A k \in DOMAIN index : \A i \in 1..Len(Segments(k)) :
                             Segments(k)[i] # DotDot)
        => InsideScratch(ScratchAfter(logFile, deltaFile, jh.enc))

\* sync_to_base went on to pack after it created "/x" next to its scratch
\* root "/r" for the overlay path "../x"
C39_Escaped ==
    /\ syncRes = "packing"
    /\ KeyUpX \in DOMAIN index
    /\ <<ChSlash, 120>> \in DOMAIN srcFiles

\* the overlay paths "/a" and "//a" were created as "/r/a"
C39_AbsoluteInside ==
    /\ syncRes = "packing"
    /\ DOMAIN index = {KeySlashA, KeySlashSlashA}
    /\ DOMAIN srcFiles = {PathJoin(RootPath, RelA)}

=============================================================================
